---- MODULE Spec2Model ----
(***************************************************************************)
(* State-machine model of the ISREALAI account-management application      *)
(* (Flask + SQLAlchemy).  The state is the content of the users and        *)
(* audit-log tables, the mail transport's outbox, the signed tokens that   *)
(* callers hold, the wall clock, the browser's login session and the       *)
(* outcome of the last operation.  One action per service method or route  *)
(* handler.                                                                *)
(*                                                                         *)
(* Storage commits succeed unless a unique constraint is violated; other   *)
(* storage failures (lost connection, full disk) are outside the model.    *)
(***************************************************************************)
EXTENDS Integers, Sequences, FiniteSets, TLC

VARIABLES users, audit, outbox, tokens, clock, session, last, pc, loc,
          build, window, sub, mailer

\* The state outside the account tables: the installed libraries, the
\* login requests of the current minute, a subscription row and a call of
\* send_email.
aux == <<build, window, sub, mailer>>

vars == <<users, audit, outbox, tokens, clock, session, last, pc, loc, aux>>

(***************************************************************************)
(* Bounds of the model.                                                    *)
(***************************************************************************)
MaxUsers == 1
MaxAudit == 2
MaxMail == 1
MaxTokens == 1
MaxTicks == 2
TokMaxTicks == 3

(***************************************************************************)
(* Program constants.                                                      *)
(***************************************************************************)
RESET_TOKEN_EXPIRES == 3600
CONFIRMATION_TOKEN_EXPIRES == 86400
TOKEN_EXPIRATION_SECONDS == 3600
MinResetPasswordLen == 8
FormPasswordMin == 8
FormPasswordMax == 128

\* Python's None for a timestamp column.
NoTime == -1

\* Python's Optional: <<>> is None, <<x>> is the value x.
None == <<>>
Some(x) == <<x>>

(***************************************************************************)
(* Strings.                                                                *)
(***************************************************************************)
StartsWith(s, prefix) ==
    /\ Len(s) >= Len(prefix)
    /\ SubSeq(s, 1, Len(prefix)) = prefix

RECURSIVE LStrip(_)
LStrip(s) ==
    IF Len(s) > 0 /\ SubSeq(s, 1, 1) = " "
    THEN LStrip(SubSeq(s, 2, Len(s)))
    ELSE s

RECURSIVE RStrip(_)
RStrip(s) ==
    IF Len(s) > 0 /\ SubSeq(s, Len(s), Len(s)) = " "
    THEN RStrip(SubSeq(s, 1, Len(s) - 1))
    ELSE s

\* str.strip()
Strip(s) == RStrip(LStrip(s))

LowerChar(c) ==
    CASE c = "A" -> "a" [] c = "B" -> "b" [] c = "C" -> "c" [] c = "D" -> "d"
      [] c = "E" -> "e" [] c = "F" -> "f" [] c = "G" -> "g" [] c = "H" -> "h"
      [] c = "I" -> "i" [] c = "J" -> "j" [] c = "K" -> "k" [] c = "L" -> "l"
      [] c = "M" -> "m" [] c = "N" -> "n" [] c = "O" -> "o" [] c = "P" -> "p"
      [] c = "Q" -> "q" [] c = "R" -> "r" [] c = "S" -> "s" [] c = "T" -> "t"
      [] c = "U" -> "u" [] c = "V" -> "v" [] c = "W" -> "w" [] c = "X" -> "x"
      [] c = "Y" -> "y" [] c = "Z" -> "z" [] OTHER -> c

RECURSIVE Lower(_)
\* str.lower()
Lower(s) ==
    IF Len(s) = 0 THEN s
    ELSE LowerChar(SubSeq(s, 1, 1)) \o Lower(SubSeq(s, 2, Len(s)))

Digits == {"0", "1", "2", "3", "4", "5", "6", "7", "8", "9"}
Letters == {"a", "b", "c", "d", "e", "f", "g", "h", "i", "j", "k", "l", "m",
            "n", "o", "p", "q", "r", "s", "t", "u", "v", "w", "x", "y", "z"}

\* re.search(r"\d", s)
HasDigit(s) == \E i \in 1..Len(s) : SubSeq(s, i, i) \in Digits

\* re.search(r"[^\w\s]", s): a character that is no letter, digit,
\* underscore or white space.
HasSpecial(s) ==
    \E i \in 1..Len(s) :
        LET c == SubSeq(s, i, i)
        IN  /\ c \notin Digits
            /\ LowerChar(c) \notin Letters
            /\ c # "_"
            /\ c # " "

\* email.split("@")[0]
LocalPart(email) ==
    IF \E i \in 1..Len(email) : SubSeq(email, i, i) = "@"
    THEN LET at == CHOOSE i \in 1..Len(email) :
                      /\ SubSeq(email, i, i) = "@"
                      /\ \A j \in 1..(i - 1) : SubSeq(email, j, j) # "@"
         IN  SubSeq(email, 1, at - 1)
    ELSE email

(***************************************************************************)
(* Password hashing (flask-bcrypt behind User.set_password and             *)
(* User.check_password).  A stored hash is either the bcrypt digest of a   *)
(* text or a text that was stored verbatim.                                *)
(***************************************************************************)
\* bcrypt.generate_password_hash(password).decode("utf-8")
GeneratePasswordHash(password) == [alg |-> "bcrypt", text |-> password]

\* A string written to the password_hash column as it is.
Verbatim(text) == [alg |-> "raw", text |-> text]

\* bcrypt.check_password_hash(pw_hash, password): re-hashes the candidate
\* with the salt read from pw_hash and compares.  A pw_hash that is not a
\* 60-character bcrypt string has no salt to read and the library raises
\* ValueError("Invalid salt"); a well-formed foreign digest matches no
\* candidate of the model.
CheckPasswordHash(pw_hash, password) ==
    IF pw_hash.alg = "bcrypt"
    THEN [raised |-> "", ok |-> pw_hash.text = password]
    ELSE IF Len(pw_hash.text) = 60 /\ StartsWith(pw_hash.text, "$2")
         THEN [raised |-> "", ok |-> FALSE]
         ELSE [raised |-> "Invalid salt", ok |-> FALSE]

\* User.set_password
set_password(user, password) ==
    [user EXCEPT !.password_hash = GeneratePasswordHash(password)]

\* User.check_password
check_password(user, password) ==
    CheckPasswordHash(user.password_hash, password)

\* User.mark_login
mark_login(user, now) == [user EXCEPT !.last_login = now]

\* User.soft_delete
soft_delete(user) == [user EXCEPT !.is_deleted = TRUE, !.is_active = FALSE]

(***************************************************************************)
(* Signed, timestamped tokens (itsdangerous.URLSafeTimedSerializer).  The   *)
(* signature is derived from SECRET_KEY and the salt, so a token verifies  *)
(* only under the salt it was signed with.                                 *)
(***************************************************************************)
SALT_CONFIRM == "email-confirmation"
SALT_RESET == "password-reset"
SECURITY_SALT == "isrealai-token-salt"

\* The payload dictionaries: {"id": user_id} and {"ctx": context, "val": data}.
IdPayload(user_id) == [id |-> Some(user_id), ctx |-> None, val |-> None]
CtxPayload(context, data) == [id |-> None, ctx |-> Some(context), val |-> Some(data)]
NoPayload == [id |-> None, ctx |-> None, val |-> None]

\* serializer.dumps(payload) at time now
Dumps(salt, payload, now) == [sig |-> salt, payload |-> payload, ts |-> now]

\* A string that no serializer of this application signed.
ForgedToken == [sig |-> "forged", payload |-> NoPayload, ts |-> 0]
NoToken == [sig |-> "", payload |-> NoPayload, ts |-> 0]

Loads_NoExpiry(token, salt, max_age, now) ==
    IF token.sig # salt
    THEN [exc |-> "BadSignature", data |-> NoPayload]
    ELSE [exc |-> "", data |-> token.payload]

\* serializer.loads(token, max_age=max_age) at time now
Loads(token, salt, max_age, now) ==
    IF token.sig # salt
    THEN [exc |-> "BadSignature", data |-> NoPayload]
    ELSE IF now - token.ts > max_age \/ now - token.ts < 0
         THEN [exc |-> "SignatureExpired", data |-> NoPayload]
         ELSE [exc |-> "", data |-> token.payload]

\* TokenService.generate_confirmation_token
generate_confirmation_token(user_id, now) ==
    Dumps(SALT_CONFIRM, IdPayload(user_id), now)

\* TokenService.confirm_token: the user id, or None
confirm_token(token, now) ==
    LET r == Loads(token, SALT_CONFIRM, CONFIRMATION_TOKEN_EXPIRES, now)
    IN  IF r.exc = "" THEN r.data.id ELSE None

\* TokenService.generate_reset_token
generate_reset_token(user_id, now) ==
    Dumps(SALT_RESET, IdPayload(user_id), now)

\* TokenService.confirm_reset_token: the user id, or None
confirm_reset_token(token, now) ==
    LET r == Loads(token, SALT_RESET, RESET_TOKEN_EXPIRES, now)
    IN  IF r.exc = "" THEN r.data.id ELSE None

\* utils.tokens.generate_token
generate_token(data, context, now) ==
    Dumps(SECURITY_SALT, CtxPayload(context, data), now)

\* utils.tokens.verify_token with max_age left at its default
verify_token(token, context, now) ==
    LET r == Loads(token, SECURITY_SALT, TOKEN_EXPIRATION_SECONDS, now)
    IN  IF r.exc = ""
        THEN IF r.data.ctx = Some(context) THEN r.data.val ELSE None
        ELSE None

\* The methods that class TokenService defines.
TokenServiceMethods ==
    {"_get_serializer", "generate_confirmation_token", "confirm_token",
     "generate_reset_token", "confirm_reset_token"}

(***************************************************************************)
(* Inputs.                                                                 *)
(***************************************************************************)
Emails == {"amy@x.io", "bob@x.io"}

\* A strong password, a second one, one below every length floor, and one
\* that begins with the bcrypt marker.
Passwords == {"Passw0rd!", "N3wpass!!", "short1!", "$2junk123"}

\* The passwords each operation is tried with.
RegisterPasswords == {"Passw0rd!", "$2junk123"}
LoginPasswords == {"Passw0rd!", "N3wpass!!", "$2junk123"}
ResetPasswords == {"N3wpass!!", "short1!"}

\* What the deployment does with a mail: it is sent, the template files
\* are missing, or the transport refuses it.
MailFates == {"sent", "no_template", "refused"}

(***************************************************************************)
(* The users table (app/models/user.py): a function from primary key to    *)
(* row.  email and name carry unique constraints.                          *)
(***************************************************************************)
\* User(email=..., username=..., full_name=...) with the column defaults
NewUser(email, name, password_hash) ==
    [email |-> email, name |-> name, password_hash |-> password_hash,
     is_email_verified |-> FALSE, full_name |-> "", bio |-> "",
     role |-> "user",
     is_active |-> TRUE, is_deleted |-> FALSE, last_login |-> NoTime]

MaxOf(S) == CHOOSE x \in S : \A y \in S : y <= x

\* The primary key the storage layer gives the next inserted row.
NextId(us) == IF DOMAIN us = {} THEN 1 ELSE MaxOf(DOMAIN us) + 1

\* User.query.filter_by(email=email).first(): the row's id, or None
UserByEmail(us, email) ==
    IF \E id \in DOMAIN us : us[id].email = email
    THEN Some(CHOOSE id \in DOMAIN us : us[id].email = email)
    ELSE None

\* User.query.get(user_id)
UserById(us, user_id) == IF user_id \in DOMAIN us THEN Some(user_id) ELSE None

EmailTaken_Never(us, email) == FALSE

\* register_user's pre-check: User.query.filter_by(email=email).first()
EmailTaken(us, email) == UserByEmail(us, email) # None

UniqueViolation_EmailOnly(us, row) ==
    \E id \in DOMAIN us : us[id].email = row.email

UniqueViolation_NameOnly(us, row) ==
    \E id \in DOMAIN us : us[id].name = row.name

\* db.session.commit() of an inserted row raises IntegrityError when a
\* unique column (email, name) already holds the value.
UniqueViolation(us, row) ==
    \E id \in DOMAIN us : us[id].email = row.email \/ us[id].name = row.name

IsUsable_Always(user) == TRUE

\* The account-state test "not user.is_active or user.is_deleted", negated.
IsUsable(user) == user.is_active /\ ~user.is_deleted

(***************************************************************************)
(* The audit-log table: rows are appended and never read back by the       *)
(* services of this model.                                                 *)
(***************************************************************************)
AuditRow(user_id, event_type) == [user_id |-> user_id, event_type |-> event_type]

\* AuthService._log_event: add one row and commit
LogEvent(au, user_id, event_type) == Append(au, AuditRow(user_id, event_type))

(***************************************************************************)
(* EmailService.  url_for resolves an endpoint name against the registered *)
(* view functions; the templates and the mail transport belong to the      *)
(* deployment, so their presence and success are inputs.                   *)
(***************************************************************************)
\* The endpoints the auth blueprint registers.
AuthEndpoints ==
    {"auth.login", "auth.register", "auth.verify_email",
     "auth.reset_request", "auth.reset_password"}

Mail(kind, to, token) == [kind |-> kind, to |-> to, token |-> token]

\* The common body of the two send_* methods: [raised, outbox]
SendMail(box, endpoint, kind, to, token, fate) ==
    IF endpoint \notin AuthEndpoints
    THEN [raised |-> "BuildError", outbox |-> box]
    ELSE IF fate = "no_template"
         THEN [raised |-> "", outbox |-> box]
         ELSE IF fate = "refused"
              THEN [raised |-> "SMTPException", outbox |-> box]
              ELSE [raised |-> "", outbox |-> Append(box, Mail(kind, to, token))]

\* EmailService.send_verification_email
send_verification_email(box, user, token, fate) ==
    SendMail(box, "auth.confirm_email", "verify", user.email, token,
             fate)

\* EmailService.send_password_reset_email
send_password_reset_email(box, user, token, fate) ==
    SendMail(box, "auth.reset_password", "reset", user.email, token,
             fate)

(***************************************************************************)
(* AuthService (app/services/auth/auth_service.py).  Each method is an     *)
(* operator from the tables to the method's outcome: the exception it      *)
(* raises (exc, err), the value it returns (uid for a user, ok for a       *)
(* boolean) and the tables as it leaves them.                              *)
(***************************************************************************)
Outcome(exc, err, uid, ok, us, au, box) ==
    [exc |-> exc, err |-> err, uid |-> uid, ok |-> ok,
     users |-> us, audit |-> au, outbox |-> box]

ERR_DUPLICATE == "Email is already registered."
ERR_REGISTER == "Could not register user at this time."
ERR_CREDENTIALS == "Invalid email or password."
ERR_INACTIVE == "Account inactive or deleted."

\* The hash register_user stores: a password that starts with "$2" is
\* taken to be hashed already.
RegisteredHash(password) ==
    IF StartsWith(password, "$2")
    THEN Verbatim(password)
    ELSE GeneratePasswordHash(password)

\* register_user from the construction of the row on (lines 56-87)
RegisterCommit(us, au, box, email, password, username, now, fate) ==
    LET name == IF username # "" THEN username ELSE LocalPart(email)
        row  == NewUser(email, name, RegisteredHash(password))
        id   == NextId(us)
        sent == send_verification_email(
                    box, row, generate_confirmation_token(id, now),
                    fate)
    IN  IF UniqueViolation(us, row)
        THEN Outcome("ValueError", ERR_REGISTER, 0, FALSE, us, au, box)
        ELSE Outcome("", "", id, TRUE, (id :> row) @@ us,
                     LogEvent(au, id, "profile_update"), sent.outbox)

\* AuthService.register_user
register_user(us, au, box, email, password, username, now, fate) ==
    IF EmailTaken(us, email)
    THEN Outcome("ValueError", ERR_DUPLICATE, 0, FALSE, us, au, box)
    ELSE RegisterCommit(us, au, box, email, password, username, now,
                        fate)

\* AuthService.authenticate
authenticate(us, au, box, email, password, record_login, now) ==
    LET found == UserByEmail(us, email)
    IN  IF found = None
        THEN Outcome("ValueError", ERR_CREDENTIALS, 0, FALSE, us, au, box)
        ELSE
          LET id == found[1]
              checked == check_password(us[id], password)
          IN  IF checked.raised # ""
              THEN Outcome("ValueError", checked.raised, 0, FALSE, us, au, box)
              ELSE IF ~checked.ok
              THEN Outcome("ValueError", ERR_CREDENTIALS, 0, FALSE, us, au, box)
              ELSE IF ~IsUsable(us[id])
              THEN Outcome("ValueError", ERR_INACTIVE, 0, FALSE, us, au, box)
              ELSE IF record_login
              THEN Outcome("", "", id, TRUE,
                           [us EXCEPT ![id] = mark_login(us[id], now)],
                           LogEvent(au, id, "login"), box)
              ELSE Outcome("", "", id, TRUE, us, au, box)

confirm_email_Relog(us, au, box, token, now) ==
    LET user_id == confirm_token(token, now)
    IN  IF user_id = None \/ UserById(us, user_id[1]) = None
        THEN Outcome("", "", 0, FALSE, us, au, box)
        ELSE Outcome("", "", user_id[1], TRUE,
                     [us EXCEPT ![user_id[1]].is_email_verified = TRUE],
                     LogEvent(au, user_id[1], "email_change"), box)

\* AuthService.confirm_email
confirm_email(us, au, box, token, now) ==
    LET user_id == confirm_token(token, now)
    IN  IF user_id = None \/ UserById(us, user_id[1]) = None
        THEN Outcome("", "", 0, FALSE, us, au, box)
        ELSE
          LET id == user_id[1]
          IN  IF us[id].is_email_verified
              THEN Outcome("", "", id, TRUE, us, au, box)
              ELSE Outcome("", "", id, TRUE,
                           [us EXCEPT ![id].is_email_verified = TRUE],
                           LogEvent(au, id, "email_change"), box)

\* An outcome together with the token the call generated (NoToken: none).
WithToken(o, token) == [token |-> token] @@ o

\* AuthService.initiate_password_reset
initiate_password_reset(us, au, box, email, now, fate) ==
    LET found == UserByEmail(us, email)
    IN  IF found = None \/ ~IsUsable(us[found[1]])
        THEN WithToken(Outcome("", "", 0, FALSE, us, au, box), NoToken)
        ELSE
          LET id == found[1]
              token == generate_reset_token(id, now)
              sent == send_password_reset_email(box, us[id], token, fate)
          IN  IF sent.raised # ""
              THEN WithToken(Outcome("", "", id, FALSE, us, au, box), token)
              ELSE WithToken(Outcome("", "", id, TRUE, us,
                                     LogEvent(au, id, "password_reset"),
                                     sent.outbox),
                             token)

StrongEnough_Any(new_password) == TRUE

\* The strength floor of reset_password: not (len(new_password) < 8)
StrongEnough(new_password) == ~(Len(new_password) < MinResetPasswordLen)

\* AuthService.reset_password
reset_password(us, au, box, token, new_password, now) ==
    LET user_id == confirm_reset_token(token, now)
    IN  IF user_id = None \/ UserById(us, user_id[1]) = None
        THEN Outcome("", "", 0, FALSE, us, au, box)
        ELSE
          LET id == user_id[1]
          IN  IF ~IsUsable(us[id])
              THEN Outcome("", "", id, FALSE, us, au, box)
              ELSE IF ~StrongEnough(new_password)
              THEN Outcome("", "", id, FALSE, us, au, box)
              ELSE Outcome("", "", id, TRUE,
                           [us EXCEPT ![id] = set_password(us[id], new_password)],
                           LogEvent(au, id, "password_reset"), box)

(***************************************************************************)
(* Forms (app/forms/auth).  validate() normalises the fields and then runs *)
(* the validators; the operators give the normalised data and the verdict. *)
(***************************************************************************)
\* The validators shared by the password fields: Length(8, 128) and the
\* digit-plus-special-character rule of validate_password.
PasswordFieldValid(password) ==
    /\ Len(password) >= FormPasswordMin
    /\ Len(password) <= FormPasswordMax
    /\ HasDigit(password)
    /\ HasSpecial(password)

\* LoginForm: [email, password, valid].  The Email() validator accepts the
\* addresses of the model, all of them well formed, once they are normalised.
LoginForm(email, password) ==
    LET e == Lower(Strip(email))
        p == Strip(password)
    IN  [email |-> e, password |-> p,
         valid |-> e \in Emails /\ PasswordFieldValid(p)]

\* The fields class RegisterForm declares.
RegisterFormFields ==
    {"username", "email", "password", "confirm_password", "accept_tos", "submit"}

\* RegisterForm, submitted with a matching confirmation and the terms
\* accepted: [email, password, valid]
RegisterForm(email, password) ==
    LET e == Lower(Strip(email))
    IN  [email |-> e, password |-> password,
         valid |-> e \in Emails /\ PasswordFieldValid(password)]

\* ResetPasswordForm, submitted with a matching confirmation
ResetPasswordForm(password) ==
    LET p == Strip(password)
    IN  [password |-> p, valid |-> PasswordFieldValid(p)]

(***************************************************************************)
(* Rendering.  The two safe_render helpers differ in their signature.      *)
(***************************************************************************)
\* app.utils.decorators.safe_render(template_name, **context)
DecoratorsSafeRender(template, with_context) == "render:" \o template

\* app.routes.safe_render(template_name): a call that passes context
\* keywords is a TypeError, which reaches the client as a 500.
RoutesSafeRender(template, with_context) ==
    IF with_context THEN "error:500" ELSE "render:" \o template

\* flask_login's current_user.is_authenticated for the user the session
\* names: UserMixin answers it with is_active, which User maps to a column.
IsAuthenticated(us, sess) == sess \in DOMAIN us /\ us[sess].is_active

(***************************************************************************)
(* The state.                                                              *)
(***************************************************************************)
Procs == {"p1", "p2"}

Last(op, email, password, token, uid, ok, exc, err, flash, resp, valid) ==
    [op |-> op, email |-> email, password |-> password, token |-> token,
     uid |-> uid, ok |-> ok, exc |-> exc, err |-> err,
     flash |-> flash, resp |-> resp, valid |-> valid,
     res |-> None, at |-> 0]

NoLast == Last("", "", "", NoToken, 0, FALSE, "", "", "", "", FALSE)

NoLocal ==
    [email |-> "", password |-> "", username |-> "", passed |-> FALSE,
     exc |-> "", err |-> "", uid |-> 0]

EmptyTable == [id \in {} |-> 0]

\* The key under which flask_login's login_user keeps the user's id in the
\* Flask session: "user_id" before release 0.5 of the library, "_user_id"
\* since.  The repository pins no release.
LoginSessionKeys == {"user_id", "_user_id"}

\* What a Limiter that was never given the application does when a
\* decorated view is called: its check finds nothing to do, or it fails for
\* want of a storage.  The repository pins no release of flask_limiter.
UninitialisedLimiter == {"inert", "error"}

Builds == [login_key : LoginSessionKeys, limiter : UninitialisedLimiter]

CurrentBuild == [login_key |-> "_user_id", limiter |-> "inert"]

\* A Subscription row with the column defaults: status "active", no end,
\* renewal or cancellation date.
NewSubscription ==
    [status |-> "active", end_date |-> NoTime, renewed_at |-> NoTime,
     canceled_at |-> NoTime]

\* No call of send_email under way.
IdleMailer ==
    [state |-> "idle", to |-> "", retries |-> 0, delay |-> 0, attempt |-> 0,
     trace |-> <<>>, waited |-> 0]

\* No request in the current minute.
NoRequests == [hits |-> 0, seen |-> 0, reached |-> 0, calls |-> 0]

AuxInit ==
    /\ build = CurrentBuild
    /\ window = NoRequests
    /\ sub = NewSubscription
    /\ mailer = IdleMailer

\* Empty tables, no session, nothing called yet.
CoreInit ==
    /\ users = EmptyTable
    /\ audit = <<>>
    /\ outbox = <<>>
    /\ tokens = {}
    /\ clock = 0
    /\ session = 0
    /\ last = NoLast
    /\ pc = [p \in Procs |-> "idle"]
    /\ loc = [p \in Procs |-> NoLocal]

Init == CoreInit /\ AuxInit

RangeOf(seq) == {seq[i] : i \in 1..Len(seq)}

\* The tokens a client can present: those it asked TokenService for, those
\* mailed to it, and strings of its own making.
Presentable == tokens \cup {m.token : m \in RangeOf(outbox)} \cup {ForgedToken}

\* The bounds on the growing tables: an operation runs when its outcome
\* fits them.
Fits(o) ==
    /\ Cardinality(DOMAIN o.users) <= MaxUsers
    /\ Len(o.audit) <= MaxAudit
    /\ Len(o.outbox) <= MaxMail

\* The step of the clock: the life of a reset token.
TickSeconds == RESET_TOKEN_EXPIRES

\* Time passes.
Tick ==
    /\ clock + TickSeconds <= MaxTicks * TickSeconds
    /\ clock' = clock + TickSeconds
    /\ UNCHANGED <<users, audit, outbox, tokens, session, last, pc, loc, aux>>

(***************************************************************************)
(* Service calls.  Each action is one call with its arguments; the action  *)
(* without arguments is the call with any arguments.                       *)
(***************************************************************************)
Apply(o) ==
    /\ Fits(o)
    /\ users' = o.users
    /\ audit' = o.audit
    /\ outbox' = o.outbox

RegisterUserWith(email, password, fate) ==
    LET o == register_user(users, audit, outbox, email, password, "", clock, fate)
    IN  /\ Apply(o)
        /\ last' = Last("register_user", email, password, NoToken,
                        o.uid, o.ok, o.exc, o.err, "", "", FALSE)
        /\ UNCHANGED <<tokens, clock, session, pc, loc, aux>>

RegisterUser ==
    \E email \in Emails, password \in RegisterPasswords, fate \in MailFates :
        RegisterUserWith(email, password, fate)

AuthenticateWith(email, password) ==
    LET o == authenticate(users, audit, outbox, email, password, TRUE, clock)
    IN  /\ Apply(o)
        /\ last' = Last("authenticate", email, password, NoToken,
                        o.uid, o.ok, o.exc, o.err, "", "", FALSE)
        /\ UNCHANGED <<tokens, clock, session, pc, loc, aux>>

Authenticate ==
    \E email \in Emails, password \in LoginPasswords :
        AuthenticateWith(email, password)

ConfirmEmailWith(token) ==
    LET o == confirm_email(users, audit, outbox, token, clock)
    IN  /\ Apply(o)
        /\ last' = [Last("confirm_email", "", "", token,
                         o.uid, o.ok, o.exc, o.err, "", "", FALSE)
                    EXCEPT !.res = IF o.ok
                                   THEN Some(users[o.uid].is_email_verified)
                                   ELSE None]
        /\ UNCHANGED <<tokens, clock, session, pc, loc, aux>>

ConfirmEmail == \E token \in Presentable : ConfirmEmailWith(token)

InitiatePasswordResetWith(email, fate) ==
    LET o == initiate_password_reset(users, audit, outbox, email, clock, fate)
    IN  /\ Apply(o)
        /\ last' = Last("initiate_password_reset", email, "", o.token,
                        o.uid, o.ok, o.exc, o.err, "", "", FALSE)
        /\ UNCHANGED <<tokens, clock, session, pc, loc, aux>>

InitiatePasswordReset ==
    \E email \in Emails, fate \in MailFates :
        InitiatePasswordResetWith(email, fate)

ResetPasswordWith(token, password) ==
    LET o == reset_password(users, audit, outbox, token, password, clock)
    IN  /\ Apply(o)
        /\ last' = Last("reset_password", "", password, token,
                        o.uid, o.ok, o.exc, o.err, "", "", FALSE)
        /\ UNCHANGED <<tokens, clock, session, pc, loc, aux>>

ResetPassword ==
    \E token \in Presentable, password \in ResetPasswords :
        ResetPasswordWith(token, password)

\* TokenService.generate_confirmation_token called for a user id; the
\* caller keeps the token.
GenerateConfirmationToken ==
    /\ Cardinality(tokens) < MaxTokens
    /\ \E id \in 1..MaxUsers :
          tokens' = tokens \cup {generate_confirmation_token(id, clock)}
    /\ UNCHANGED <<users, audit, outbox, clock, session, last, pc, loc, aux>>

\* TokenService.generate_reset_token called for a user id
GenerateResetToken ==
    /\ Cardinality(tokens) < MaxTokens
    /\ \E id \in 1..MaxUsers :
          tokens' = tokens \cup {generate_reset_token(id, clock)}
    /\ UNCHANGED <<users, audit, outbox, clock, session, last, pc, loc, aux>>

\* The holder of a token throws it away.
ForgetToken ==
    /\ \E t \in tokens : tokens' = tokens \ {t}
    /\ UNCHANGED <<users, audit, outbox, clock, session, last, pc, loc, aux>>

\* The transport has delivered what it held.
EmptyOutbox ==
    /\ outbox # <<>>
    /\ outbox' = <<>>
    /\ UNCHANGED <<users, audit, tokens, clock, session, last, pc, loc, aux>>

clear_audit_logs_KeepsOne(au) ==
    [audit |-> IF au = <<>> THEN au ELSE <<au[1]>>,
     num_deleted |-> IF au = <<>> THEN 0 ELSE Len(au) - 1]

\* The clear-audit-logs command: AuditLog.query.delete(), which answers
\* the number of rows it matched, and commit.
clear_audit_logs(au) == [audit |-> <<>>, num_deleted |-> Len(au)]

\* The command on a table that holds rows, its output unread.
ClearAuditLogs ==
    /\ audit # <<>>
    /\ audit' = clear_audit_logs(audit).audit
    /\ UNCHANGED <<users, outbox, tokens, clock, session, last, pc, loc, aux>>

\* AdminService.deactivate_user for an existing user
DeactivateUser ==
    /\ \E id \in DOMAIN users :
          /\ Len(audit) < MaxAudit
          /\ users' = [users EXCEPT ![id].is_active = FALSE]
          /\ audit' = LogEvent(audit, id, "deactivate_user")
          /\ last' = Last("deactivate_user", "", "", NoToken, id, TRUE,
                          "", "", "", "", FALSE)
    /\ UNCHANGED <<outbox, tokens, clock, session, pc, loc, aux>>

\* User.soft_delete on a loaded row, committed
SoftDeleteUser ==
    /\ \E id \in DOMAIN users :
          /\ users' = [users EXCEPT ![id] = soft_delete(users[id])]
          /\ last' = Last("soft_delete", "", "", NoToken, id, TRUE,
                          "", "", "", "", FALSE)
    /\ UNCHANGED <<audit, outbox, tokens, clock, session, pc, loc, aux>>

(***************************************************************************)
(* Routes of the auth blueprint, as POST requests from one browser.        *)
(***************************************************************************)
FLASH_LOGGED_IN == "You are already logged in."
FLASH_LOGIN_OK == "Login successful."
FLASH_LOGIN_FAILED == "Invalid email or password."
FLASH_REGISTERED_ALREADY == "You are already registered and logged in."
FLASH_DUPLICATE == "Email already registered. Please login or reset your password."
FLASH_REGISTER_OK == "Registration successful! Please check your email to verify your account."
FLASH_UNEXPECTED == "An unexpected error occurred. Please try again."
FLASH_BAD_LINK == "Invalid or expired reset link."
FLASH_RESET_OK == "Your password has been updated. You can now log in."
FLASH_RESET_FAILED == "Password reset failed. Please try again or request a new link."
FLASH_RESET_SENT == "Password reset instructions have been sent to your email."

\* The response of the login view to a POST: [users, audit, outbox,
\* session, last]
login(us, au, box, sess, email, password, now) ==
    LET form == LoginForm(email, password)
        o == authenticate(us, au, box, form.email, form.password, TRUE, now)
        quiet == Outcome("", "", 0, FALSE, us, au, box)
    IN  IF IsAuthenticated(us, sess)
        THEN [out |-> quiet, session |-> sess, valid |-> FALSE,
              flash |-> FLASH_LOGGED_IN, resp |-> "redirect:dashboard.home"]
        ELSE IF ~form.valid
        THEN [out |-> quiet, session |-> sess, valid |-> FALSE, flash |-> "",
              resp |-> DecoratorsSafeRender("auth/login.html", TRUE)]
        ELSE IF o.exc = ""
        THEN [out |-> o, session |-> o.uid, valid |-> TRUE,
              flash |-> FLASH_LOGIN_OK, resp |-> "redirect:dashboard.home"]
        ELSE IF o.exc = "ValueError"
        THEN [out |-> o, session |-> sess, valid |-> TRUE,
              flash |-> FLASH_LOGIN_FAILED,
              resp |-> DecoratorsSafeRender("auth/login.html", TRUE)]
        ELSE [out |-> o, session |-> sess, valid |-> TRUE, flash |-> "",
              resp |-> "error:500"]

LoginPostWith(email, password) ==
    LET r == login(users, audit, outbox, session, email, password, clock)
    IN  /\ Apply(r.out)
        /\ session' = r.session
        /\ last' = Last("login", email, password, NoToken, r.out.uid,
                        r.out.ok, r.out.exc, r.out.err, r.flash, r.resp,
                        r.valid)
        /\ UNCHANGED <<tokens, clock, pc, loc, aux>>

LoginPost ==
    \E email \in Emails, password \in LoginPasswords :
        LoginPostWith(email, password)

\* The browser drops its session cookie.
DropSession ==
    /\ session # 0
    /\ session' = 0
    /\ UNCHANGED <<users, audit, outbox, tokens, clock, last, pc, loc, aux>>

\* The response of the register view to a POST
register(us, au, box, sess, email, password, now, fate) ==
    LET form == RegisterForm(email, password)
        o == register_user(us, au, box, form.email, form.password, "", now,
                           fate)
        quiet == Outcome("", "", 0, FALSE, us, au, box)
    IN  IF IsAuthenticated(us, sess)
        THEN [out |-> quiet, valid |-> FALSE, flash |-> FLASH_REGISTERED_ALREADY,
              resp |-> "redirect:dashboard.home"]
        ELSE IF ~form.valid
        THEN [out |-> quiet, valid |-> FALSE, flash |-> "",
              resp |-> RoutesSafeRender("auth/signup.html", TRUE)]
        ELSE IF UserByEmail(us, form.email) # None
        THEN [out |-> quiet, valid |-> TRUE, flash |-> FLASH_DUPLICATE,
              resp |-> "redirect:auth.login"]
        ELSE IF "full_name" \notin RegisterFormFields
        \* form.full_name is evaluated before register_user is called
        THEN [out |-> [quiet EXCEPT !.exc = "AttributeError"], valid |-> TRUE,
              flash |-> FLASH_UNEXPECTED,
              resp |-> RoutesSafeRender("auth/signup.html", TRUE)]
        ELSE IF o.exc # ""
        THEN [out |-> o, valid |-> TRUE, flash |-> FLASH_UNEXPECTED,
              resp |-> RoutesSafeRender("auth/signup.html", TRUE)]
        \* AuthService has no generate_confirmation_token: the second
        \* verification mail fails after the user was created
        ELSE [out |-> [o EXCEPT !.exc = "AttributeError"], valid |-> TRUE,
              flash |-> FLASH_UNEXPECTED,
              resp |-> RoutesSafeRender("auth/signup.html", TRUE)]

RegisterPostWith(email, password, fate) ==
    LET r == register(users, audit, outbox, session, email, password, clock, fate)
    IN  /\ Apply(r.out)
        /\ last' = Last("register", email, password, NoToken, r.out.uid,
                        r.out.ok, r.out.exc, r.out.err, r.flash, r.resp,
                        r.valid)
        /\ UNCHANGED <<tokens, clock, session, pc, loc, aux>>

RegisterPost ==
    \E email \in Emails, password \in RegisterPasswords, fate \in MailFates :
        RegisterPostWith(email, password, fate)

\* user_service.update_user_password(token, new_password): its first
\* statement reads TokenService.verify_password_reset_token, which the
\* class does not define, so the call raises AttributeError before it
\* touches the table.
update_user_password(us, token, new_password) ==
    IF "verify_password_reset_token" \notin TokenServiceMethods
    THEN [raised |-> "AttributeError", users |-> us]
    ELSE [raised |-> "", users |-> us]

\* The response of the reset_password view to a POST
reset_password_view(us, sess, token, password, now) ==
    LET form == ResetPasswordForm(password)
        user == confirm_reset_token(token, now)
        upd == update_user_password(us, user, form.password)
        page == RoutesSafeRender("auth/reset_password.html", TRUE)
    IN  IF IsAuthenticated(us, sess)
        THEN [users |-> us, uid |-> 0, valid |-> FALSE, exc |-> "",
              flash |-> FLASH_LOGGED_IN, resp |-> "redirect:dashboard.home"]
        ELSE IF user = None
        \* the page is rendered inside the try block; a failed render is
        \* caught, flashed over and rendered again after the block
        THEN [users |-> us, uid |-> 0, valid |-> form.valid, exc |-> "",
              flash |-> IF page = "error:500" THEN FLASH_RESET_FAILED
                        ELSE FLASH_BAD_LINK,
              resp |-> page]
        ELSE IF ~form.valid
        THEN [users |-> us, uid |-> user[1], valid |-> FALSE, exc |-> "",
              flash |-> "", resp |-> page]
        ELSE IF upd.raised # ""
        THEN [users |-> us, uid |-> user[1], valid |-> TRUE, exc |-> upd.raised,
              flash |-> FLASH_RESET_FAILED, resp |-> page]
        ELSE [users |-> upd.users, uid |-> user[1], valid |-> TRUE, exc |-> "",
              flash |-> FLASH_RESET_OK, resp |-> "redirect:auth.login"]

ResetPasswordPostWith(token, password) ==
    LET r == reset_password_view(users, session, token, password, clock)
    IN  /\ users' = r.users
        /\ last' = Last("reset_password_view", "", password, token,
                        r.uid, r.exc = "" /\ r.valid /\ r.uid # 0,
                        r.exc, "", r.flash, r.resp, r.valid)
        /\ UNCHANGED <<audit, outbox, tokens, clock, session, pc, loc, aux>>

ResetPasswordPost ==
    \E token \in Presentable, password \in ResetPasswords :
        ResetPasswordPostWith(token, password)

\* ResetRequestForm: a required, well-formed address; the class has no
\* normalisation hook.
ResetRequestForm(email) == [email |-> email, valid |-> email \in Emails]

\* What a client types into the reset-request form.
ResetRequestEmails == Emails \cup {"nobody"}

\* The response of the reset_request view to a POST
reset_request(us, au, box, sess, email, now, fate) ==
    LET form == ResetRequestForm(email)
        o == initiate_password_reset(us, au, box, form.email, now, fate)
        quiet == WithToken(Outcome("", "", 0, FALSE, us, au, box), NoToken)
    IN  IF IsAuthenticated(us, sess)
        THEN [out |-> quiet, valid |-> FALSE, flash |-> FLASH_LOGGED_IN,
              resp |-> "redirect:dashboard.home"]
        ELSE IF ~form.valid
        THEN [out |-> quiet, valid |-> FALSE, flash |-> "",
              resp |-> RoutesSafeRender("auth/reset_request.html", TRUE)]
        \* the boolean that initiate_password_reset returns is not read
        ELSE [out |-> o, valid |-> TRUE, flash |-> FLASH_RESET_SENT,
              resp |-> "redirect:auth.login"]

ResetRequestPostWith(email, fate) ==
    LET r == reset_request(users, audit, outbox, session, email, clock, fate)
    IN  /\ Apply(r.out)
        /\ last' = Last("reset_request", email, "", r.out.token, r.out.uid,
                        r.out.ok, r.out.exc, r.out.err, r.flash, r.resp,
                        r.valid)
        /\ UNCHANGED <<tokens, clock, session, pc, loc, aux>>

ResetRequestPost ==
    \E email \in ResetRequestEmails, fate \in MailFates :
        ResetRequestPostWith(email, fate)

\* The reset-request flow.
NextResetRequest ==
    \/ Tick
    \/ ClearAuditLogs
    \/ EmptyOutbox
    \/ RegisterUser
    \/ DeactivateUser
    \/ SoftDeleteUser
    \/ InitiatePasswordReset
    \/ ResetRequestPost

SpecResetRequest == Init /\ [][NextResetRequest]_vars

\* The login flow: accounts are registered, verified, deactivated and
\* deleted, and clients sign in through the service and through the view.
Next ==
    \/ Tick
    \/ ClearAuditLogs
    \/ RegisterUser
    \/ GenerateConfirmationToken
    \/ ForgetToken
    \/ ConfirmEmail
    \/ DeactivateUser
    \/ SoftDeleteUser
    \/ Authenticate
    \/ LoginPost
    \/ DropSession

Spec == Init /\ [][Next]_vars

\* The registration flow.
NextRegister ==
    \/ ClearAuditLogs
    \/ RegisterUser
    \/ RegisterPost
    \/ SoftDeleteUser

SpecRegister == Init /\ [][NextRegister]_vars

\* The password-reset flow.
NextReset ==
    \/ Tick
    \/ ClearAuditLogs
    \/ RegisterUser
    \/ GenerateResetToken
    \/ ForgetToken
    \/ DeactivateUser
    \/ SoftDeleteUser
    \/ ResetPassword
    \/ ResetPasswordPost
    \/ Authenticate

SpecReset == Init /\ [][NextReset]_vars

(***************************************************************************)
(* The token functions on their own: tokens are issued, time passes in     *)
(* steps that land on and just past each validity window, and every        *)
(* confirming function is applied to every issued token.                   *)
(***************************************************************************)
TokenIds == {1, 2}
TokenData == {"1", "2"}
Contexts == {"confirm", "reset"}
TokSteps == {1, RESET_TOKEN_EXPIRES, CONFIRMATION_TOKEN_EXPIRES}

\* The number of steps that led to a clock value.
TicksUsed(c) ==
    (c \div CONFIRMATION_TOKEN_EXPIRES)
    + ((c % CONFIRMATION_TOKEN_EXPIRES) \div RESET_TOKEN_EXPIRES)
    + (c % RESET_TOKEN_EXPIRES)

TokTick ==
    /\ TicksUsed(clock) < TokMaxTicks
    /\ \E d \in TokSteps : clock' = clock + d
    /\ UNCHANGED <<users, audit, outbox, tokens, session, last, pc, loc, aux>>

IssueConfirmationToken ==
    /\ Cardinality(tokens) < MaxTokens
    /\ \E id \in TokenIds :
          tokens' = tokens \cup {generate_confirmation_token(id, clock)}
    /\ UNCHANGED <<users, audit, outbox, clock, session, last, pc, loc, aux>>

IssueResetToken ==
    /\ Cardinality(tokens) < MaxTokens
    /\ \E id \in TokenIds :
          tokens' = tokens \cup {generate_reset_token(id, clock)}
    /\ UNCHANGED <<users, audit, outbox, clock, session, last, pc, loc, aux>>

IssueToken ==
    /\ Cardinality(tokens) < MaxTokens
    /\ \E data \in TokenData, context \in Contexts :
          tokens' = tokens \cup {generate_token(data, context, clock)}
    /\ UNCHANGED <<users, audit, outbox, clock, session, last, pc, loc, aux>>

\* What a confirming function returned, and when.
TokenResult(op, token, res) ==
    [Last(op, "", "", token, 0, res # None, "", "", "", "", FALSE)
        EXCEPT !.res = res, !.at = clock]

ConfirmTokenWith(token) ==
    /\ last' = TokenResult("confirm_token", token, confirm_token(token, clock))
    /\ UNCHANGED <<users, audit, outbox, tokens, clock, session, pc, loc, aux>>

ConfirmToken == \E token \in Presentable : ConfirmTokenWith(token)

ConfirmResetTokenWith(token) ==
    /\ last' = TokenResult("confirm_reset_token", token,
                           confirm_reset_token(token, clock))
    /\ UNCHANGED <<users, audit, outbox, tokens, clock, session, pc, loc, aux>>

ConfirmResetToken == \E token \in Presentable : ConfirmResetTokenWith(token)

VerifyTokenWith(token, context) ==
    /\ last' = [TokenResult("verify_token", token,
                            verify_token(token, context, clock))
                   EXCEPT !.email = context]
    /\ UNCHANGED <<users, audit, outbox, tokens, clock, session, pc, loc, aux>>

VerifyToken ==
    \E token \in Presentable, context \in Contexts :
        VerifyTokenWith(token, context)

NextTok ==
    \/ TokTick
    \/ IssueConfirmationToken
    \/ IssueResetToken
    \/ IssueToken
    \/ ForgetToken
    \/ ConfirmToken
    \/ ConfirmResetToken
    \/ VerifyToken

SpecTok == Init /\ [][NextTok]_vars

(***************************************************************************)
(* Two requests inside register_user at once.  Each runs the pre-check     *)
(* (line 53) in its own step and the insert, commit and what follows       *)
(* (lines 56-87) in a later one, so the other request can run in between.  *)
(***************************************************************************)
RaceEmails == Emails \cup {"amy@y.io"}
RaceUsernames == {"", "amy2"}

RacePreCheck(p) ==
    /\ pc[p] = "idle"
    /\ \E email \in RaceEmails, username \in RaceUsernames :
          IF EmailTaken(users, email)
          THEN /\ pc' = [pc EXCEPT ![p] = "done"]
               /\ loc' = [loc EXCEPT ![p] =
                            [email |-> email, password |-> "Passw0rd!",
                             username |-> username, passed |-> FALSE,
                             exc |-> "ValueError", err |-> ERR_DUPLICATE,
                             uid |-> 0]]
          ELSE /\ pc' = [pc EXCEPT ![p] = "checked"]
               /\ loc' = [loc EXCEPT ![p] =
                            [email |-> email, password |-> "Passw0rd!",
                             username |-> username, passed |-> TRUE,
                             exc |-> "", err |-> "", uid |-> 0]]
    /\ UNCHANGED <<users, audit, outbox, tokens, clock, session, last, aux>>

RaceCommit(p) ==
    /\ pc[p] = "checked"
    /\ \E fate \in MailFates :
          LET o == RegisterCommit(users, audit, outbox, loc[p].email,
                                  loc[p].password, loc[p].username, clock, fate)
          IN  /\ users' = o.users
              /\ audit' = o.audit
              /\ outbox' = o.outbox
              /\ loc' = [loc EXCEPT ![p].exc = o.exc, ![p].err = o.err,
                                    ![p].uid = o.uid]
    /\ pc' = [pc EXCEPT ![p] = "done"]
    /\ UNCHANGED <<tokens, clock, session, last, aux>>

NextRace == \E p \in Procs : RacePreCheck(p) \/ RaceCommit(p)

SpecRace == Init /\ [][NextRace]_vars

(***************************************************************************)
(* Access control: the guards of app/utils/decorators.py and flask_login's *)
(* login_required, in front of the admin dashboard and the user API.       *)
(***************************************************************************)
\* The blueprints create_app registers.  The admin pages (blueprints
\* admin_dashboard, admin_users, admin_database) are registered only by
\* register_admin_routes, which nothing calls.
RegisteredBlueprints ==
    {"main", "auth", "profile", "dashboard", "subscription", "admin",
     "user_api", "subscription_api"}

ADMIN_ROLE == "admin"

FLASH_LOGIN_REQUIRED == "Please log in to access this page."
FLASH_ACCESS_DENIED == "Access denied. Please log in first."
FLASH_ADMIN_REQUIRED == "Admin access required."

\* What a guard or a view answers: whether the view function ran, the
\* flashed message and the response.
Answer(reached, flash, resp) ==
    [reached |-> reached, flash |-> flash, resp |-> resp]

\* The guard let the request through.
Pass == Answer(TRUE, "", "")

\* session.get(key) of the Flask session, in a browser whose flask_login
\* session names user sess (0: none): login_user is the only writer.
FlaskSessionGet(bld, sess, key) ==
    IF sess # 0 /\ bld.login_key = key THEN sess ELSE 0

\* flask_login.login_required: LoginManager.unauthorized flashes the login
\* message and redirects to the login view.
FlaskLoginRequired(us, sess) ==
    IF IsAuthenticated(us, sess) THEN Pass
    ELSE Answer(FALSE, FLASH_LOGIN_REQUIRED, "redirect:auth.login")

\* "not user or user.role != ADMIN_ROLE or not user.is_active", negated
IsAdmin(us, user_id) ==
    /\ user_id \in DOMAIN us
    /\ us[user_id].role = ADMIN_ROLE
    /\ us[user_id].is_active

admin_required(us, bld, sess) ==
    LET user_id == FlaskSessionGet(bld, sess, "user_id")
    IN  IF user_id = 0
        THEN Answer(FALSE, FLASH_ACCESS_DENIED, "redirect:auth.login")
        ELSE IF ~IsAdmin(us, user_id)
        THEN Answer(FALSE, FLASH_ADMIN_REQUIRED, "redirect:dashboard.home")
        ELSE Pass

api_admin_required(us, bld, sess) ==
    LET user_id == FlaskSessionGet(bld, sess, "user_id")
    IN  IF user_id = 0 THEN Answer(FALSE, "", "json:401")
        ELSE IF ~IsAdmin(us, user_id) THEN Answer(FALSE, "", "json:403")
        ELSE Pass

\* The guards of a route in the order they run; the view answers when all
\* of them pass.
Guarded(guards, view) ==
    IF \E i \in 1..Len(guards) : ~guards[i].reached
    THEN guards[CHOOSE i \in 1..Len(guards) :
                   /\ ~guards[i].reached
                   /\ \A j \in 1..(i - 1) : guards[j].reached]
    ELSE view

\* The 404 handler of create_app, for a URL no registered blueprint serves.
NotFound == Answer(FALSE, "", "error:404")

Dispatch(blueprint, answer) ==
    IF blueprint \in RegisteredBlueprints THEN answer ELSE NotFound

\* GET /admin/dashboard/: the view hands its context to safe_render as a
\* second positional argument, which raises TypeError; the handler of
\* Exception renders the placeholder.
admin_dashboard(us, bld, sess) ==
    Dispatch("admin_dashboard",
             Guarded(<<FlaskLoginRequired(us, sess),
                       admin_required(us, bld, sess)>>,
                     Answer(TRUE, "",
                            DecoratorsSafeRender(
                                "placeholders/under_construction.html",
                                FALSE))))

\* GET /api/v1/users/<user_id>
get_user_by_id(us, bld, sess, user_id) ==
    Dispatch("user_api",
             Guarded(<<FlaskLoginRequired(us, sess),
                       api_admin_required(us, bld, sess)>>,
                     IF UserById(us, user_id) = None
                     THEN Answer(TRUE, "", "json:404")
                     ELSE Answer(TRUE, "", "json:200")))

\* The outcome of a GET request, as the last call.
Visit(op, a) ==
    /\ last' = Last(op, "", "", NoToken, session, a.reached, "", "",
                    a.flash, a.resp, FALSE)
    /\ UNCHANGED <<users, audit, outbox, tokens, clock, session, pc, loc, aux>>

AdminDashboardGet == Visit("admin_dashboard", admin_dashboard(users, build, session))

UserIds == 1..(MaxUsers + 1)

UserApiGetWith(user_id) ==
    Visit("get_user_by_id", get_user_by_id(users, build, session, user_id))

UserApiGet == \E user_id \in UserIds : UserApiGetWith(user_id)

\* The routes behind flask_login's login_required, each with the blueprint
\* that serves it.
LoginRequiredRoutes ==
    {[endpoint |-> "dashboard.home", blueprint |-> "dashboard"],
     [endpoint |-> "profile.edit_profile", blueprint |-> "profile"],
     [endpoint |-> "profile.delete_account", blueprint |-> "profile"],
     [endpoint |-> "subscription.view_plans", blueprint |-> "subscription"],
     [endpoint |-> "user_api.get_current_user", blueprint |-> "user_api"],
     [endpoint |-> "user_api.get_user_by_id", blueprint |-> "user_api"],
     [endpoint |-> "subscription_api.fetch_my_subscriptions",
      blueprint |-> "subscription_api"],
     [endpoint |-> "subscription_api.fetch_subscription_by_id",
      blueprint |-> "subscription_api"],
     [endpoint |-> "admin_dashboard.admin_dashboard",
      blueprint |-> "admin_dashboard"],
     [endpoint |-> "admin_users.manage_users", blueprint |-> "admin_users"],
     [endpoint |-> "admin_database.database_console",
      blueprint |-> "admin_database"]}

\* A request to a login_required route: the decorator runs first, and
\* what it wraps (further guards and the view function) after it.
login_required_route(us, sess, route) ==
    Dispatch(route.blueprint,
             Guarded(<<FlaskLoginRequired(us, sess)>>,
                     Answer(TRUE, "", "view:" \o route.endpoint)))

RouteGetWith(route) ==
    Visit(route.endpoint, login_required_route(users, session, route))

RouteGet == \E route \in LoginRequiredRoutes : RouteGetWith(route)

\* request.args.get("next"): None when the query has no such parameter
NextPages == {None, Some(""), Some("/profile/edit")}

\* "next_page or current_app.config.get('LOGIN_REDIRECT_URL',
\* url_for('dashboard.home'))"; no configuration sets LOGIN_REDIRECT_URL.
RedirectUrl(next_page) ==
    IF next_page # None /\ next_page[1] # "" THEN next_page[1]
    ELSE "dashboard.home"

\* The login view for a POST to /auth/login?next=...
login_with_next(us, au, box, sess, email, password, next_page, now) ==
    LET r == login(us, au, box, sess, email, password, now)
    IN  IF r.flash = FLASH_LOGIN_OK
        THEN [r EXCEPT !.resp = "redirect:" \o RedirectUrl(next_page)]
        ELSE r

LoginNextPostWith(email, password, next_page) ==
    LET r == login_with_next(users, audit, outbox, session, email, password,
                             next_page, clock)
    IN  /\ Apply(r.out)
        /\ session' = r.session
        /\ last' = [Last("login", email, password, NoToken, r.out.uid,
                         r.out.ok, r.out.exc, r.out.err, r.flash, r.resp,
                         r.valid) EXCEPT !.res = next_page]
        /\ UNCHANGED <<tokens, clock, pc, loc, aux>>

LoginNextPost ==
    \E email \in Emails, password \in LoginPasswords, next_page \in NextPages :
        LoginNextPostWith(email, password, next_page)

\* An operator gives a user the admin role in the users table; no route
\* and no working command of the repository does.
GrantAdmin ==
    /\ \E id \in DOMAIN users :
          /\ users[id].role # ADMIN_ROLE
          /\ users' = [users EXCEPT ![id].role = ADMIN_ROLE]
    /\ UNCHANGED <<audit, outbox, tokens, clock, session, last, pc, loc, aux>>

InitAccess ==
    /\ CoreInit
    /\ build \in {b \in Builds : b.limiter = CurrentBuild.limiter}
    /\ window = NoRequests
    /\ sub = NewSubscription
    /\ mailer = IdleMailer

NextAccess ==
    \/ ClearAuditLogs
    \/ RegisterUser
    \/ GrantAdmin
    \/ DeactivateUser
    \/ DropSession
    \/ AdminDashboardGet
    \/ UserApiGet
    \/ RouteGet
    \/ LoginNextPost

SpecAccess == InitAccess /\ [][NextAccess]_vars

(***************************************************************************)
(* The rate limit of the login route: @limiter.limit("5 per minute"), with *)
(* the Limiter of app/extensions.py keyed by the caller's address.  One    *)
(* caller address is modelled.                                             *)
(***************************************************************************)
LOGIN_LIMIT == 5

\* The requests one minute of the model holds.
MaxRequests == 6

\* create_app initialises db, migrate, login_manager and mail; it neither
\* calls limiter.init_app nor init_extensions, which would.
LimiterInitialized == FALSE

\* The check the limit decorator runs before the view, and the hits the
\* limiter's storage then holds for the caller.  An initialised limiter
\* counts the request and refuses it with 429 when the count passes the
\* amount.
limiter_limit(bld, initialized, hits, amount) ==
    IF initialized
    THEN [answer |-> IF hits + 1 > amount
                     THEN Answer(FALSE, "", "error:429") ELSE Pass,
          hits |-> hits + 1]
    ELSE IF bld.limiter = "inert"
    THEN [answer |-> Pass, hits |-> hits]
    ELSE [answer |-> Answer(FALSE, "", "error:500"), hits |-> hits]

\* A POST to /auth/login from the caller: the limit, then the view.
LoginLimitedPostWith(email, password) ==
    LET g == limiter_limit(build, LimiterInitialized, window.hits, LOGIN_LIMIT)
        r == login(users, audit, outbox, session, email, password, clock)
        called == ~IsAuthenticated(users, session) /\ r.valid
    IN  /\ window.seen < MaxRequests
        /\ IF g.answer.reached
           THEN /\ Apply(r.out)
                /\ session' = r.session
                /\ last' = [Last("login", email, password, NoToken,
                                 r.out.uid, r.out.ok, r.out.exc, r.out.err,
                                 r.flash, r.resp, r.valid)
                            EXCEPT !.at = window.seen + 1]
                /\ window' = [hits |-> g.hits, seen |-> window.seen + 1,
                              reached |-> window.reached + 1,
                              calls |-> window.calls
                                          + (IF called THEN 1 ELSE 0)]
           ELSE /\ last' = [Last("login", email, password, NoToken, 0,
                                 FALSE, "", "", g.answer.flash,
                                 g.answer.resp, FALSE)
                            EXCEPT !.at = window.seen + 1]
                /\ window' = [window EXCEPT !.hits = g.hits,
                                            !.seen = window.seen + 1]
                /\ UNCHANGED <<users, audit, outbox, session>>
        /\ UNCHANGED <<tokens, clock, pc, loc, build, sub, mailer>>

LoginLimitedPost ==
    \E email \in Emails, password \in LoginPasswords :
        LoginLimitedPostWith(email, password)

\* The minute ends and with it the limiter's window.
NewMinute ==
    /\ window # NoRequests
    /\ window' = NoRequests
    /\ UNCHANGED <<users, audit, outbox, tokens, clock, session, last, pc,
                   loc, build, sub, mailer>>

InitLimit ==
    /\ CoreInit
    /\ build \in {b \in Builds : b.login_key = CurrentBuild.login_key}
    /\ window = NoRequests
    /\ sub = NewSubscription
    /\ mailer = IdleMailer

NextLimit ==
    \/ ClearAuditLogs
    \/ RegisterUser
    \/ DropSession
    \/ LoginLimitedPost
    \/ NewMinute

SpecLimit == InitLimit /\ [][NextLimit]_vars

(***************************************************************************)
(* Email confirmation over the life of a confirmation token.               *)
(***************************************************************************)
\* A day passes: the life of a confirmation token.
DayPasses ==
    /\ clock < CONFIRMATION_TOKEN_EXPIRES
    /\ clock' = clock + CONFIRMATION_TOKEN_EXPIRES
    /\ UNCHANGED <<users, audit, outbox, tokens, session, last, pc, loc, aux>>

NextConfirm ==
    \/ Tick
    \/ DayPasses
    \/ ClearAuditLogs
    \/ RegisterUser
    \/ SoftDeleteUser
    \/ GenerateConfirmationToken
    \/ ForgetToken
    \/ ConfirmEmail

SpecConfirm == Init /\ [][NextConfirm]_vars

(***************************************************************************)
(* The Subscription model (app/models/subscription.py): one row, its       *)
(* methods, and the passing of time.  Datetimes are seconds; NoTime is an  *)
(* unset column.                                                           *)
(***************************************************************************)
\* timedelta(days=1), in seconds
DAY == 86400

\* The step of the clock in the subscription model.
HALF_DAY == DAY \div 2

MaxHalfDays == 8
MaxEndDays == 4
MaxRenewedEndDays == 40

\* The values of the column's Enum.
SubscriptionStatus == {"active", "canceled", "expired"}

\* The default of is_active's grace_days.
DEFAULT_GRACE_DAYS == 3

\* The default of renew's duration_days.
DEFAULT_DURATION_DAYS == 30

GraceDays == {0, 1, DEFAULT_GRACE_DAYS}
DurationDays == {0, 1, DEFAULT_DURATION_DAYS}

\* The end dates a stored row starts with: none, or a half day of the
\* first MaxEndDays days.
EndDates == {NoTime} \cup {h * HALF_DAY : h \in 0..(2 * MaxEndDays)}

is_active_NoGrace(s, grace_days, now) ==
    IF s.status # "active" THEN FALSE
    ELSE IF s.end_date = NoTime THEN TRUE
    ELSE s.end_date >= now

\* Subscription.is_active(grace_days) at time now
is_active(s, grace_days, now) ==
    IF s.status # "active" THEN FALSE
    ELSE IF s.end_date = NoTime THEN TRUE
    ELSE s.end_date + grace_days * DAY >= now

\* Subscription.cancel() at time now
cancel(s, now) == [s EXCEPT !.status = "canceled", !.canceled_at = now]

renew_FromEnd(s, duration_days, now) ==
    [s EXCEPT !.renewed_at = now, !.status = "active",
              !.end_date = IF s.end_date = NoTime
                           THEN now + duration_days * DAY
                           ELSE s.end_date + duration_days * DAY]

renew_FromNow(s, duration_days, now) ==
    [s EXCEPT !.renewed_at = now, !.status = "active",
              !.end_date = now + duration_days * DAY]

\* Subscription.renew(duration_days) at time now
renew(s, duration_days, now) ==
    [s EXCEPT !.renewed_at = now, !.status = "active",
              !.end_date = IF s.end_date = NoTime \/ s.end_date < now
                           THEN now + duration_days * DAY
                           ELSE s.end_date + duration_days * DAY]

SubCall(op, arg, result) ==
    [Last(op, "", "", NoToken, 0, result, "", "", "", "", FALSE)
     EXCEPT !.at = arg]

SubUnchanged ==
    UNCHANGED <<users, audit, outbox, tokens, session, pc, loc, build, window,
                mailer>>

SubTick ==
    /\ clock < MaxHalfDays * HALF_DAY
    /\ clock' = clock + HALF_DAY
    /\ UNCHANGED <<sub, last>>
    /\ SubUnchanged

IsActiveWith(grace_days) ==
    /\ last' = SubCall("is_active", grace_days,
                       is_active(sub, grace_days, clock))
    /\ UNCHANGED <<sub, clock>>
    /\ SubUnchanged

IsActive == \E grace_days \in GraceDays : IsActiveWith(grace_days)

Cancel ==
    /\ sub.status # "canceled"
    /\ sub' = cancel(sub, clock)
    /\ last' = SubCall("cancel", 0, TRUE)
    /\ UNCHANGED clock
    /\ SubUnchanged

RenewWith(duration_days) ==
    /\ renew(sub, duration_days, clock).end_date <= MaxRenewedEndDays * DAY
    /\ sub' = renew(sub, duration_days, clock)
    /\ last' = SubCall("renew", duration_days, TRUE)
    /\ UNCHANGED clock
    /\ SubUnchanged

Renew == \E duration_days \in DurationDays : RenewWith(duration_days)

\* A stored row: any status of the Enum and any end date.
InitSub ==
    /\ CoreInit
    /\ build = CurrentBuild
    /\ window = NoRequests
    /\ mailer = IdleMailer
    /\ \E status \in SubscriptionStatus, end_date \in EndDates :
          sub = [NewSubscription EXCEPT !.status = status,
                                        !.end_date = end_date]

NextSub == SubTick \/ IsActive \/ Cancel \/ Renew

SpecSub == InitSub /\ [][NextSub]_vars

(***************************************************************************)
(* send_email (app/utils/email.py): the retry loop, one step per attempt   *)
(* and per sleep.  Delays are tenths of a second.                          *)
(***************************************************************************)
MaxRetries == 4

\* The defaults of send_email: retries = 3, delay = 2.5
DEFAULT_RETRIES == 3
DEFAULT_DELAY == 25

\* A delay a caller may pass instead: half a second.
SHORT_DELAY == 5

RetryCounts == 0..MaxRetries
Delays == {SHORT_DELAY, DEFAULT_DELAY}

\* What the transport does with one attempt.
TransportFates == {"sent", "failed"}

\* The number of events of a kind in the trace of a call.
CountOf(trace, kind) == Cardinality({i \in 1..Len(trace) : trace[i] = kind})

\* send_email(msg, retries, delay) is called: "for attempt in range(1,
\* retries + 1)" starts, or ends at once when the range is empty.
SendEmailCall ==
    /\ mailer.state \in {"idle", "returned", "raised"}
    /\ \E to \in Emails, retries \in RetryCounts, delay \in Delays :
          mailer' = [state |-> IF retries >= 1 THEN "trying" ELSE "raised",
                     to |-> to, retries |-> retries, delay |-> delay,
                     attempt |-> IF retries >= 1 THEN 1 ELSE 0,
                     trace |-> <<>>, waited |-> 0]
    /\ UNCHANGED <<users, audit, outbox, tokens, clock, session, last, pc,
                   loc, build, window, sub>>

\* One pass of the try block: mail.connect() and conn.send(msg) succeed and
\* the function returns, or raise and the handler is entered.
SendAttempt ==
    /\ mailer.state = "trying"
    /\ \E fate \in TransportFates :
          mailer' = [mailer EXCEPT
                       !.trace = Append(@, fate),
                       !.state = IF fate = "sent" THEN "returned"
                                 ELSE "sleeping"]
    /\ UNCHANGED <<users, audit, outbox, tokens, clock, session, last, pc,
                   loc, build, window, sub>>

\* The handler's time.sleep(delay), then the next pass of the loop or,
\* when the range is used up, the raise of EmailSendError.
SendSleep ==
    /\ mailer.state = "sleeping"
    /\ mailer' = [mailer EXCEPT
                    !.trace = Append(@, "sleep"),
                    !.waited = @ + mailer.delay,
                    !.attempt = IF mailer.attempt < mailer.retries
                                THEN @ + 1 ELSE @,
                    !.state = IF mailer.attempt < mailer.retries
                              THEN "trying" ELSE "raised"]
    /\ UNCHANGED <<users, audit, outbox, tokens, clock, session, last, pc,
                   loc, build, window, sub>>

NextMail == SendEmailCall \/ SendAttempt \/ SendSleep

SpecMail == Init /\ [][NextMail]_vars

(***************************************************************************)
(* Page rendering: the two safe_render helpers and the page routes that    *)
(* call them, over deployments in which a route's template may be missing. *)
(***************************************************************************)
PLACEHOLDER == "placeholders/under_construction.html"

\* The page routes: the blueprint that serves each, the helper its module
\* imports (app.utils.decorators or app.routes), how the view passes its
\* context to the helper, the template it names, whether the view's own
\* "except Exception" renders the placeholder, and whether the page is
\* behind login_required or turns logged-in users away.
PageRoute(endpoint, blueprint, helper, call, template, catches, access) ==
    [endpoint |-> endpoint, blueprint |-> blueprint, helper |-> helper,
     call |-> call, template |-> template, catches |-> catches,
     access |-> access]

PageRoutes ==
    {PageRoute("auth.login", "auth", "decorators", "keywords",
               "auth/login.html", FALSE, "anonymous"),
     PageRoute("auth.register", "auth", "routes", "keywords",
               "auth/signup.html", FALSE, "anonymous"),
     PageRoute("auth.reset_request", "auth", "routes", "keywords",
               "auth/reset_request.html", FALSE, "anonymous"),
     PageRoute("auth.verify_email", "auth", "routes", "none",
               "auth/verify_email.html", FALSE, "anonymous"),
     PageRoute("profile.edit_profile", "profile", "routes", "keywords",
               "profile/edit.html", FALSE, "login"),
     PageRoute("profile.delete_account", "profile", "routes", "keywords",
               "profile/delete.html", FALSE, "login"),
     PageRoute("dashboard.home", "dashboard", "decorators", "positional",
               "dashboard/index.html", TRUE, "login"),
     PageRoute("subscription.view_plans", "subscription", "decorators",
               "positional", "subscription/plans.html", TRUE, "login"),
     PageRoute("admin_dashboard.admin_dashboard", "admin_dashboard",
               "decorators", "positional", "admin/dashboard.html", TRUE,
               "login"),
     PageRoute("main.home", "main", "decorators", "none", "main/home.html",
               FALSE, "any")}

\* The templates of a complete deployment.
Templates == {route.template : route \in PageRoutes} \cup {PLACEHOLDER}

\* flask.render_template over the templates present
render_template(template, present) ==
    IF template \in present
    THEN [exc |-> "", resp |-> "render:" \o template]
    ELSE [exc |-> "TemplateNotFound", resp |-> ""]

\* A helper caught TemplateNotFound and renders the placeholder.
Fallback(r, present) ==
    IF r.exc = "TemplateNotFound" THEN render_template(PLACEHOLDER, present)
    ELSE r

\* app.utils.decorators.safe_render(template_name, **context): one
\* positional parameter, so a context passed positionally is a TypeError.
decorators_safe_render(template, call, present) ==
    IF call = "positional" THEN [exc |-> "TypeError", resp |-> ""]
    ELSE Fallback(render_template(template, present), present)

\* app.routes.safe_render(template_name): no keyword parameters, so any
\* context is a TypeError.
routes_safe_render(template, call, present) ==
    IF call # "none" THEN [exc |-> "TypeError", resp |-> ""]
    ELSE Fallback(render_template(template, present), present)

\* The view's render call, its handler of Exception where it has one, and
\* Flask's 500 for what escapes.
PageView(route, present) ==
    LET first == IF route.helper = "decorators"
                 THEN decorators_safe_render(route.template, route.call,
                                             present)
                 ELSE routes_safe_render(route.template, route.call, present)
        r == IF first.exc # "" /\ route.catches
             THEN decorators_safe_render(PLACEHOLDER, "none", present)
             ELSE first
    IN  IF r.exc = "" THEN Answer(TRUE, "", r.resp)
        ELSE Answer(TRUE, "", "error:500")

\* A GET request for the page: the route's guards, then the view.
\* The admin dashboard stands for the three admin pages.
Page(us, bld, sess, route, present) ==
    Dispatch(route.blueprint,
             IF route.access = "login"
             THEN Guarded(IF route.blueprint = "admin_dashboard"
                          THEN <<FlaskLoginRequired(us, sess),
                                 admin_required(us, bld, sess)>>
                          ELSE <<FlaskLoginRequired(us, sess)>>,
                          PageView(route, present))
             ELSE IF route.access = "anonymous" /\ IsAuthenticated(us, sess)
             THEN Answer(FALSE, FLASH_LOGGED_IN, "redirect:dashboard.home")
             ELSE PageView(route, present))

\* The deployment lacks the route's template, or lacks none.
PageGetWith(route, missing) ==
    LET present == IF missing THEN Templates \ {route.template}
                   ELSE Templates
        a == Page(users, build, session, route, present)
    IN  /\ last' = Last(route.endpoint, "", "", NoToken, session, a.reached,
                        "", "", a.flash, a.resp, missing)
        /\ UNCHANGED <<users, audit, outbox, tokens, clock, session, pc, loc,
                       aux>>

PageGet ==
    \E route \in PageRoutes, missing \in BOOLEAN : PageGetWith(route, missing)

NextPageRoutes ==
    \/ ClearAuditLogs
    \/ RegisterUser
    \/ GrantAdmin
    \/ LoginPost
    \/ DropSession
    \/ PageGet

SpecPages == Init /\ [][NextPageRoutes]_vars

(***************************************************************************)
(* The profile blueprint (app/routes/profile/account.py) and the update    *)
(* of a profile in UserService.                                            *)
(***************************************************************************)
FLASH_PROFILE_OK == "Profile updated successfully."
FLASH_PROFILE_FAILED == "Failed to update profile. Please try again."

PROFILE_EDIT_LIMIT == 10

\* The fields class UpdateProfileForm declares.
UpdateProfileFormFields == {"username", "email", "submit"}

\* The Regexp validator of the username field: ^[A-Za-z0-9_]+$
IsWord(s) ==
    /\ Len(s) > 0
    /\ \A i \in 1..Len(s) :
          LET c == SubSeq(s, i, i)
          IN  c \in Digits \/ LowerChar(c) \in Letters \/ c = "_"

\* str.isdigit()
IsDigit(s) == Len(s) > 0 /\ \A i \in 1..Len(s) : SubSeq(s, i, i) \in Digits

\* UpdateProfileForm(obj=current_user): [username, email, valid].  The
\* route gives the form no original values, so validate_username and
\* validate_email run no uniqueness check.
UpdateProfileForm(username, email) ==
    LET u == Lower(Strip(username))
        e == Lower(Strip(email))
    IN  [username |-> u, email |-> e,
         valid |-> /\ Len(u) >= 3
                   /\ Len(u) <= 30
                   /\ IsWord(u)
                   /\ ~IsDigit(u)
                   /\ e \in Emails]

ALLOWED_UPDATE_FIELDS == {"email", "username", "bio", "profile_picture"}

\* setattr(user, field, value): "username" is a property over the name
\* column, "profile_picture" names no column and no property of User.
SetAttr(user, field, value) ==
    CASE field = "email" -> [user EXCEPT !.email = value]
      [] field = "username" -> [user EXCEPT !.name = value]
      [] field = "bio" -> [user EXCEPT !.bio = value]
      [] field = "full_name" -> [user EXCEPT !.full_name = value]
      [] OTHER -> user

RECURSIVE SetAllowed(_, _, _)
\* The loop of update_user_profile over the keyword arguments left.
SetAllowed(user, updates, fields) ==
    IF fields = {} THEN user
    ELSE LET field == CHOOSE f \in fields : TRUE
             next == IF field \in ALLOWED_UPDATE_FIELDS
                     THEN SetAttr(user, field, updates[field])
                     ELSE user
         IN  SetAllowed(next, updates, fields \ {field})

\* UserService.update_user_profile(user_id, **updates): the users table
\* after the call and the "success" entry of the returned dict.
update_user_profile(us, user_id, updates) ==
    IF UserById(us, user_id) = None
    THEN [users |-> us, success |-> FALSE]
    ELSE [users |-> [us EXCEPT ![user_id] =
                        SetAllowed(us[user_id], updates, DOMAIN updates)],
          success |-> TRUE]

\* The view function edit_profile for a POST: [users, valid, flash, resp].
\* An attribute the form does not declare raises AttributeError inside the
\* try block; its handler flashes and falls through to the render call,
\* which passes form= to app.routes.safe_render.
edit_profile(us, sess, username, email, full_name, bio) ==
    LET form == UpdateProfileForm(username, email)
        page == routes_safe_render("profile/edit.html", "keyword", Templates)
        rendered == IF page.exc = "" THEN page.resp ELSE "error:500"
        r == update_user_profile(us, sess, [f \in {"full_name", "bio"} |->
                 IF f = "full_name" THEN full_name ELSE bio])
    IN  IF ~form.valid
        THEN [users |-> us, valid |-> FALSE, flash |-> "", resp |-> rendered]
        ELSE IF {"full_name", "bio"} \subseteq UpdateProfileFormFields
        THEN [users |-> r.users, valid |-> TRUE, flash |-> FLASH_PROFILE_OK,
              resp |-> "redirect:profile.edit_profile"]
        ELSE [users |-> us, valid |-> TRUE, flash |-> FLASH_PROFILE_FAILED,
              resp |-> rendered]

\* POST /profile/edit: login_required, the limit, then the view.
edit_profile_route(us, bld, sess, username, email, full_name, bio) ==
    LET v == edit_profile(us, sess, username, email, full_name, bio)
        a == Dispatch("profile",
                 Guarded(<<FlaskLoginRequired(us, sess),
                           limiter_limit(bld, LimiterInitialized, 0,
                                         PROFILE_EDIT_LIMIT).answer>>,
                         Answer(TRUE, v.flash, v.resp)))
    IN  [users |-> IF a.reached THEN v.users ELSE us,
         valid |-> a.reached /\ v.valid, answer |-> a]

ProfileUsernames == {"amy_1", "a!"}
FullNames == {"Amy Ng", ""}
Bios == {"hi", ""}

ProfileEditPostWith(username, email, full_name, bio) ==
    LET r == edit_profile_route(users, build, session, username, email,
                                full_name, bio)
    IN  /\ users' = r.users
        /\ last' = [Last("edit_profile", email, "", NoToken, session,
                         r.answer.reached, "", "", r.answer.flash,
                         r.answer.resp, r.valid)
                    EXCEPT !.res = <<full_name, bio>>]
        /\ UNCHANGED <<audit, outbox, tokens, clock, session, pc, loc, aux>>

ProfileEditPost ==
    \E username \in ProfileUsernames, email \in Emails,
       full_name \in FullNames, bio \in Bios :
        ProfileEditPostWith(username, email, full_name, bio)

InitProfile ==
    /\ CoreInit
    /\ build \in Builds
    /\ window = NoRequests
    /\ sub = NewSubscription
    /\ mailer = IdleMailer

NextProfile ==
    \/ ClearAuditLogs
    \/ RegisterUser
    \/ LoginPost
    \/ DropSession
    \/ DeactivateUser
    \/ ProfileEditPost

SpecProfile == InitProfile /\ [][NextProfile]_vars

(***************************************************************************)
(* The life of audit rows: appended by the services, removed by the        *)
(* clear-audit-logs command and, through the cascade of User.audit_logs,   *)
(* with the user they belong to.                                           *)
(***************************************************************************)
\* The users and audit rows the audit specification holds at most.
MaxAuditUsers == 2
MaxAuditRows == 3

\* The command runs the operator types one after the other.
MaxRuns == 2

CascadeDelete_All(au, user_id) == <<>>

\* cascade="all, delete-orphan" on User.audit_logs: session.delete(user)
\* deletes the rows that belong to the user.
CascadeDelete(au, user_id) == SelectSeq(au, LAMBDA row : row.user_id # user_id)

\* The users table without the row of user_id
WithoutUser(us, user_id) == [id \in DOMAIN us \ {user_id} |-> us[id]]

\* AdminService._log_admin_action: add one row and commit.  The commit of
\* a row whose user is gone raises IntegrityError where the database
\* enforces foreign keys; the helper rolls back and logs.
log_admin_action(us, au, action, user_id, enforced) ==
    IF enforced /\ user_id \notin DOMAIN us THEN au
    ELSE LogEvent(au, user_id, action)

\* AdminService.delete_user: [users, audit, success]
admin_delete_user(us, au, user_id, enforced) ==
    IF UserById(us, user_id) = None
    THEN [users |-> us, audit |-> au, success |-> FALSE]
    ELSE LET left == WithoutUser(us, user_id)
         IN  [users |-> left,
              audit |-> log_admin_action(left, CascadeDelete(au, user_id),
                                         "delete_user", user_id, enforced),
              success |-> TRUE]

\* UserService.delete_user(user_id, soft_delete): [users, audit, success]
delete_user(us, au, user_id, soft) ==
    IF UserById(us, user_id) = None
    THEN [users |-> us, audit |-> au, success |-> FALSE]
    ELSE IF soft
    THEN [users |-> [us EXCEPT ![user_id].is_active = FALSE], audit |-> au,
          success |-> TRUE]
    ELSE [users |-> WithoutUser(us, user_id),
          audit |-> CascadeDelete(au, user_id), success |-> TRUE]

\* Whether the database of the deployment enforces foreign keys is its
\* own matter (SQLite does not unless told to).
AdminDeleteUserWith(user_id, enforced) ==
    LET r == admin_delete_user(users, audit, user_id, enforced)
    IN  /\ users' = r.users
        /\ audit' = r.audit
        /\ last' = [Last("admin.delete_user", "", "", NoToken, user_id,
                         r.success, "", "", "", "", enforced)
                    EXCEPT !.res = None]
        /\ UNCHANGED <<outbox, tokens, clock, session, pc, loc, aux>>

AdminDeleteUser ==
    \E user_id \in UserIds, enforced \in BOOLEAN :
        AdminDeleteUserWith(user_id, enforced)

DeleteUserWith(user_id, soft) ==
    LET r == delete_user(users, audit, user_id, soft)
    IN  /\ users' = r.users
        /\ audit' = r.audit
        /\ last' = Last("delete_user", "", "", NoToken, user_id, r.success,
                        "", "", "", "", soft)
        /\ UNCHANGED <<outbox, tokens, clock, session, pc, loc, aux>>

DeleteUser ==
    \E user_id \in UserIds, soft \in BOOLEAN : DeleteUserWith(user_id, soft)

\* The operator runs the command and reads the count it prints; last.res
\* holds the counts of the runs made one after the other.
ClearAuditLogsRun ==
    LET r == clear_audit_logs(audit)
        before == IF last.op = "clear-audit-logs" THEN last.res ELSE <<>>
    IN  /\ Len(before) < MaxRuns
        /\ audit' = r.audit
        /\ last' = [Last("clear-audit-logs", "", "", NoToken, 0, TRUE, "",
                         "", "", "", FALSE)
                    EXCEPT !.res = Append(before, r.num_deleted)]
        /\ UNCHANGED <<users, outbox, tokens, clock, session, pc, loc, aux>>

\* register_user within the bounds of the audit specification
RegisterAmongWith(email, password, fate) ==
    LET o == register_user(users, audit, outbox, email, password, "", clock,
                           fate)
    IN  /\ Cardinality(DOMAIN o.users) <= MaxAuditUsers
        /\ Len(o.audit) <= MaxAuditRows
        /\ Len(o.outbox) <= MaxMail
        /\ users' = o.users
        /\ audit' = o.audit
        /\ outbox' = o.outbox
        /\ last' = Last("register_user", email, password, NoToken,
                        o.uid, o.ok, o.exc, o.err, "", "", FALSE)
        /\ UNCHANGED <<tokens, clock, session, pc, loc, aux>>

RegisterAmong ==
    \E email \in Emails, password \in RegisterPasswords, fate \in MailFates :
        RegisterAmongWith(email, password, fate)

\* authenticate within the bounds of the audit specification
AuthenticateAmongWith(email, password) ==
    LET o == authenticate(users, audit, outbox, email, password, TRUE, clock)
    IN  /\ Len(o.audit) <= MaxAuditRows
        /\ users' = o.users
        /\ audit' = o.audit
        /\ last' = Last("authenticate", email, password, NoToken, o.uid,
                        o.ok, o.exc, o.err, "", "", FALSE)
        /\ UNCHANGED <<outbox, tokens, clock, session, pc, loc, aux>>

AuthenticateAmong ==
    \E email \in Emails, password \in LoginPasswords :
        AuthenticateAmongWith(email, password)

NextAudit ==
    \/ RegisterAmong
    \/ AuthenticateAmong
    \/ DeactivateUser
    \/ AdminDeleteUser
    \/ DeleteUser
    \/ ClearAuditLogsRun

SpecAudit == Init /\ [][NextAudit]_vars

(***************************************************************************)
(* The verify-email route (app/routes/auth/verify.py) and the requests a   *)
(* client can make without a session once an account was switched off.     *)
(***************************************************************************)
FLASH_ALREADY_VERIFIED == "Your account is already verified."
FLASH_BAD_VERIFY_LINK == "Invalid or expired verification link."
FLASH_VERIFIED == "Email verified successfully! You can now log in."

activate_user_account_Verifies(user) == [user EXCEPT !.is_email_verified = TRUE]

\* user_service.activate_user_account(user): the row after the commit
activate_user_account(user) == [user EXCEPT !.is_active = TRUE]

\* The view function verify_email: [users, uid, flash, resp].  uid is the
\* user the view activated, or 0.
verify_email(us, sess, token, now) ==
    LET user_id == confirm_token(token, now)
        page == RoutesSafeRender("auth/verify_email.html", FALSE)
    IN  IF IsAuthenticated(us, sess)
        THEN [users |-> us, uid |-> 0, flash |-> FLASH_ALREADY_VERIFIED,
              resp |-> "redirect:dashboard.home"]
        ELSE IF user_id = None \/ UserById(us, user_id[1]) = None
        THEN [users |-> us, uid |-> 0, flash |-> FLASH_BAD_VERIFY_LINK,
              resp |-> page]
        ELSE IF us[user_id[1]].is_active
        THEN [users |-> us, uid |-> 0, flash |-> FLASH_ALREADY_VERIFIED,
              resp |-> "redirect:auth.login"]
        ELSE [users |-> [us EXCEPT ![user_id[1]] =
                            activate_user_account(us[user_id[1]])],
              uid |-> user_id[1], flash |-> FLASH_VERIFIED,
              resp |-> "redirect:auth.login"]

\* GET /auth/verify-email/<token>
VerifyEmailGetWith(token) ==
    LET r == verify_email(users, session, token, clock)
    IN  /\ users' = r.users
        /\ last' = Last("verify_email", "", "", token, r.uid, r.uid # 0, "",
                        "", r.flash, r.resp, confirm_token(token, clock) # None)
        /\ UNCHANGED <<audit, outbox, tokens, clock, session, pc, loc, aux>>

VerifyEmailGet == \E token \in Presentable : VerifyEmailGetWith(token)

\* Accounts are registered and switched off, tokens are issued, and a
\* client without a session makes the requests open to it.
NextReactivate ==
    \/ ClearAuditLogs
    \/ RegisterUser
    \/ GenerateConfirmationToken
    \/ DeactivateUser
    \/ SoftDeleteUser
    \/ VerifyEmailGet
    \/ LoginPost
    \/ ResetRequestPost
    \/ ResetPasswordPost
    \/ DropSession

SpecReactivate == Init /\ [][NextReactivate]_vars

\* The verify-email route over the life of a confirmation token, for
\* clients with and without a session.
NextVerify ==
    \/ ClearAuditLogs
    \/ RegisterUser
    \/ GenerateConfirmationToken
    \/ GenerateResetToken
    \/ ForgetToken
    \/ DayPasses
    \/ DeactivateUser
    \/ SoftDeleteUser
    \/ LoginPost
    \/ DropSession
    \/ VerifyEmailGet

SpecVerify == Init /\ [][NextVerify]_vars

(***************************************************************************)
(* The registration and login forms on what a user types.                  *)
(***************************************************************************)
Paddings == {"", " "}

PasswordTexts == {"Passw0rd!", "N3wpass!!", "$2junk123", "short1!", "nodigit!!"}

\* What a user types into a password field: a text, with or without white
\* space around it.
TypedPasswords ==
    {lead \o text \o trail :
        lead \in Paddings, text \in PasswordTexts, trail \in Paddings}

TypedEmails == {"amy@x.io", " Amy@X.io ", "bob@x.io", "nobody"}

\* form.validate_on_submit() of RegisterForm and the password the register
\* view then hands to register_user (password=form.password.data)
RegisterFormSubmitWith(email, password) ==
    LET form == RegisterForm(email, password)
    IN  /\ last' = [Last("RegisterForm", email, password, NoToken, 0,
                         form.valid, "", "", "", "", form.valid)
                    EXCEPT !.res = IF form.valid THEN Some(form.password)
                                   ELSE None]
        /\ UNCHANGED <<users, audit, outbox, tokens, clock, session, pc, loc,
                       aux>>

RegisterFormSubmit ==
    \E email \in TypedEmails, password \in TypedPasswords :
        RegisterFormSubmitWith(email, password)

\* form.validate_on_submit() of LoginForm and the password the login view
\* then hands to authenticate (password=form.password.data)
LoginFormSubmitWith(email, password) ==
    LET form == LoginForm(email, password)
    IN  /\ last' = [Last("LoginForm", email, password, NoToken, 0,
                         form.valid, "", "", "", "", form.valid)
                    EXCEPT !.res = IF form.valid THEN Some(form.password)
                                   ELSE None]
        /\ UNCHANGED <<users, audit, outbox, tokens, clock, session, pc, loc,
                       aux>>

LoginFormSubmit ==
    \E email \in TypedEmails, password \in TypedPasswords :
        LoginFormSubmitWith(email, password)

NextForms ==
    \/ RegisterFormSubmit
    \/ LoginFormSubmit

SpecForms == Init /\ [][NextForms]_vars

(***************************************************************************)
(* Registration with and without a username, among several accounts.       *)
(***************************************************************************)
\* Addresses of which two share their local part
NamedEmails == Emails \cup {"amy@y.io"}

\* The username argument of register_user; "" stands for none given.
Usernames == {"", "amy", "bob"}

\* register_user(email, password, username) within the bounds of the
\* audit specification
RegisterNamedWith(email, password, username, fate) ==
    LET o == register_user(users, audit, outbox, email, password, username,
                           clock, fate)
    IN  /\ Cardinality(DOMAIN o.users) <= MaxAuditUsers
        /\ Len(o.audit) <= MaxAuditRows
        /\ Len(o.outbox) <= MaxMail
        /\ users' = o.users
        /\ audit' = o.audit
        /\ outbox' = o.outbox
        /\ last' = [Last("register_user", email, password, NoToken,
                         o.uid, o.ok, o.exc, o.err, "", "", FALSE)
                    EXCEPT !.res = Some(username)]
        /\ UNCHANGED <<tokens, clock, session, pc, loc, aux>>

\* The transport of a deployment in which mail goes out
NamedFates == {"sent"}

RegisterNamed ==
    \E email \in NamedEmails, password \in RegisterPasswords,
       username \in Usernames, fate \in NamedFates :
        RegisterNamedWith(email, password, username, fate)

NextNames ==
    \/ RegisterNamed
    \/ DeleteUser
    \/ ClearAuditLogsRun

SpecNames == Init /\ [][NextNames]_vars

(***************************************************************************)
(* Properties.                                                             *)
(***************************************************************************)
\* The bcrypt digest of a password, as it sits in the password_hash column.
DigestOf(password) == [alg |-> "bcrypt", text |-> password]

\* verified, active and not deleted
InGoodStanding(user) ==
    user.is_email_verified /\ user.is_active /\ ~user.is_deleted

\* The message test_login_failure_unverified_user looks for.
FLASH_VERIFY == "verify your email"

\* C1: for a verified, active, non-deleted user, authenticate with the
\* password whose digest the account stores returns that user and stamps
\* last_login with the time of the call; with any other password it raises
\* the generic invalid-credentials error, leaves last_login as it was and
\* appends nothing to the audit log.
C1_AuthenticateVerifiedUser ==
    [][\A email \in Emails, password \in LoginPasswords :
          AuthenticateWith(email, password) =>
            \A id \in DOMAIN users :
              (users[id].email = email /\ InGoodStanding(users[id])) =>
                IF users[id].password_hash = DigestOf(password)
                THEN /\ last'.exc = ""
                     /\ last'.uid = id
                     /\ users'[id].last_login = clock
                ELSE /\ last'.exc = "ValueError"
                     /\ last'.err = ERR_CREDENTIALS
                     /\ users'[id].last_login = users[id].last_login
                     /\ audit' = audit]_vars

\* C2: authenticate raises one and the same error for an email no user has
\* and for a user's email with a password that is not the user's; the user
\* it returns is active and not deleted; and the login view flashes one and
\* the same message for every sign-in that fails.
C2_UniformFailure ==
    [][\A email \in Emails, password \in LoginPasswords :
          /\ AuthenticateWith(email, password) =>
               /\ (\A id \in DOMAIN users :
                      users[id].email = email =>
                          users[id].password_hash # DigestOf(password))
                  => (last'.exc = "ValueError" /\ last'.err = ERR_CREDENTIALS)
               /\ last'.exc = "" =>
                      /\ users[last'.uid].is_active
                      /\ ~users[last'.uid].is_deleted
          /\ (LoginPostWith(email, password) /\ last'.valid /\ last'.exc # "")
               => last'.flash = FLASH_LOGIN_FAILED]_vars

\* C3: a login POST with the email and the password of a user whose email
\* is not verified establishes no session, and the response tells the user
\* to verify the email.
C3_UnverifiedLogin ==
    [][\A email \in Emails, password \in LoginPasswords :
          LoginPostWith(email, password) =>
            \A id \in DOMAIN users :
              (/\ users[id].email = email
               /\ users[id].password_hash = DigestOf(password)
               /\ ~users[id].is_email_verified
               /\ session = 0)
              => (session' = 0 /\ last'.flash = FLASH_VERIFY)]_vars

\* C4: register_user with an email that a user row already holds raises
\* the already-registered error and leaves the users table, the outbox and
\* the audit log as they were.
C4_DuplicateEmail ==
    [][\A email \in Emails, password \in RegisterPasswords, fate \in MailFates :
          (/\ RegisterUserWith(email, password, fate)
           /\ \E id \in DOMAIN users : users[id].email = email)
          => /\ last'.exc = "ValueError"
             /\ last'.err = ERR_DUPLICATE
             /\ users' = users
             /\ outbox' = outbox
             /\ audit' = audit]_vars

C4_Witness ==
    /\ last.op = "register_user"
    /\ last.err = ERR_DUPLICATE
    /\ \E id \in DOMAIN users : users[id].email = last.email

\* C5: no two user rows hold the same email; and when two register_user
\* calls for one email have both passed the pre-check and both finished,
\* they have not both succeeded, and a call that failed raised the generic
\* could-not-register error and left no row.
C5_RaceOneWinner ==
    /\ \A i, j \in DOMAIN users : users[i].email = users[j].email => i = j
    /\ \A p, q \in Procs :
          (/\ p # q
           /\ pc[p] = "done" /\ pc[q] = "done"
           /\ loc[p].passed /\ loc[q].passed
           /\ loc[p].email = loc[q].email)
          => /\ ~(loc[p].exc = "" /\ loc[q].exc = "")
             /\ loc[p].exc # "" =>
                    /\ loc[p].exc = "ValueError"
                    /\ loc[p].err = ERR_REGISTER
                    /\ loc[p].uid = 0

C5_Witness ==
    \E p, q \in Procs :
        /\ p # q
        /\ pc[p] = "done" /\ pc[q] = "done"
        /\ loc[p].passed /\ loc[q].passed
        /\ loc[p].email = loc[q].email
        /\ loc[p].username # loc[q].username
        /\ loc[p].exc = ""
        /\ loc[q].err = ERR_REGISTER

\* C6: a valid registration POST for an email no user has creates exactly
\* one user row with that email, puts a verification mail for it in the
\* outbox and answers with a redirect to the login page.
C6_RegistrationPost ==
    [][\A email \in Emails, password \in RegisterPasswords, fate \in MailFates :
          (/\ RegisterPostWith(email, password, fate)
           /\ last'.valid
           /\ \A id \in DOMAIN users : users[id].email # email)
          => /\ Cardinality({id \in DOMAIN users' : users'[id].email = email}) = 1
             /\ Cardinality(DOMAIN users') = Cardinality(DOMAIN users) + 1
             /\ \E i \in 1..Len(outbox') :
                    outbox'[i].kind = "verify" /\ outbox'[i].to = email
             /\ last'.resp = "redirect:auth.login"]_vars

\* C7: a token that one of the generating functions made for u is turned
\* back into u by its own confirming function while the token's age is
\* within that function's window, and into None once the window has
\* elapsed; every other confirming function, and verify_token under
\* another context, turns it into None.
C7_TokenRoundTrip ==
    [][\A t \in tokens :
          /\ \A u \in TokenIds :
                t = generate_confirmation_token(u, t.ts) =>
                  /\ ConfirmTokenWith(t) =>
                         last'.res = IF clock - t.ts <= CONFIRMATION_TOKEN_EXPIRES
                                     THEN Some(u) ELSE None
                  /\ ConfirmResetTokenWith(t) => last'.res = None
                  /\ \A c \in Contexts : VerifyTokenWith(t, c) => last'.res = None
          /\ \A u \in TokenIds :
                t = generate_reset_token(u, t.ts) =>
                  /\ ConfirmResetTokenWith(t) =>
                         last'.res = IF clock - t.ts <= RESET_TOKEN_EXPIRES
                                     THEN Some(u) ELSE None
                  /\ ConfirmTokenWith(t) => last'.res = None
                  /\ \A c \in Contexts : VerifyTokenWith(t, c) => last'.res = None
          /\ \A d \in TokenData, c \in Contexts :
                t = generate_token(d, c, t.ts) =>
                  /\ \A c2 \in Contexts :
                        VerifyTokenWith(t, c2) =>
                          last'.res = IF c2 = c /\ clock - t.ts <= TOKEN_EXPIRATION_SECONDS
                                      THEN Some(d) ELSE None
                  /\ ConfirmTokenWith(t) => last'.res = None
                  /\ ConfirmResetTokenWith(t) => last'.res = None]_vars

C7_Witness ==
    /\ last.op = "confirm_reset_token"
    /\ last.token = generate_reset_token(2, last.token.ts)
    /\ last.at - last.token.ts > RESET_TOKEN_EXPIRES
    /\ last.at - last.token.ts <= CONFIRMATION_TOKEN_EXPIRES
    /\ last.res = None

\* C8: a POST to the reset-confirmation view with a live reset token of an
\* active user and a valid form answers with a redirect to the login page,
\* and afterwards authenticate returns the user for the new password and
\* raises for the old one.
C8_ResetConfirmationPost ==
    [][\A t \in tokens, password \in ResetPasswords, old \in RegisterPasswords :
          ResetPasswordPostWith(t, password) =>
            \A id \in DOMAIN users :
              (/\ t = generate_reset_token(id, t.ts)
               /\ clock - t.ts <= RESET_TOKEN_EXPIRES
               /\ users[id].is_active /\ ~users[id].is_deleted
               /\ users[id].password_hash = DigestOf(old)
               /\ old # password
               /\ last'.valid)
              => /\ last'.resp = "redirect:auth.login"
                 /\ authenticate(users', audit', outbox', users'[id].email,
                                 password, FALSE, clock).uid = id
                 /\ authenticate(users', audit', outbox', users'[id].email,
                                 old, FALSE, clock).exc # ""]_vars

\* C9: reset_password returns false and leaves the users table and the
\* audit log as they were when the token is not a live reset token, when
\* the token's user is unknown, inactive or deleted, or when the password
\* is shorter than eight characters; otherwise it stores the digest of the
\* new password, appends one password-reset audit entry and returns true.
C9_ResetPasswordService ==
    [][\A t \in Presentable, password \in ResetPasswords :
          ResetPasswordWith(t, password) =>
            LET live == /\ t.sig = SALT_RESET
                        /\ clock - t.ts <= RESET_TOKEN_EXPIRES
                        /\ t.payload.id # None
                id == t.payload.id[1]
                usable == /\ live
                          /\ id \in DOMAIN users
                          /\ users[id].is_active
                          /\ ~users[id].is_deleted
            IN  IF usable /\ Len(password) >= 8
                THEN /\ last'.ok
                     /\ users' = [users EXCEPT ![id].password_hash = DigestOf(password)]
                     /\ audit' = Append(audit, [user_id |-> id,
                                                event_type |-> "password_reset"])
                ELSE /\ ~last'.ok
                     /\ users' = users
                     /\ audit' = audit]_vars

C9_Witness ==
    /\ last.op = "reset_password"
    /\ last.ok
    /\ last.uid \in DOMAIN users
    /\ users[last.uid].password_hash = DigestOf(last.password)
    /\ audit # <<>>
    /\ audit[Len(audit)] = [user_id |-> last.uid, event_type |-> "password_reset"]

\* C10: after reset_password has succeeded with a token, a later call with
\* the same token fails.
C10_OneTimeToken ==
    [][\A password \in ResetPasswords :
          (/\ last.op = "reset_password"
           /\ last.ok
           /\ ResetPasswordWith(last.token, password))
          => ~last'.ok]_vars

C12_NoPlaintextStored ==
    \A id \in DOMAIN users, password \in Passwords :
        ~(/\ users[id].password_hash.alg = "raw"
          /\ users[id].password_hash.text = password)

\* C13: a user who is logged in through the login route and whose role is
\* not admin gets no privileged content from an admin-only route:
\* /admin/dashboard/ answers with a redirect and a flashed message, and
\* /api/v1/users/<id> answers with 403 JSON.
C13_NonAdminDenied ==
    [][(/\ IsAuthenticated(users, session)
        /\ users[session].role # "admin")
       => /\ AdminDashboardGet =>
               /\ ~last'.ok
               /\ StartsWith(last'.resp, "redirect:")
               /\ last'.flash # ""
          /\ \A user_id \in UserIds :
               UserApiGetWith(user_id) =>
                   (~last'.ok /\ last'.resp = "json:403")]_vars

\* C13: the request of a logged-in non-admin for the admin dashboard is
\* answered by the 404 handler.
C13_DashboardAnswer ==
    /\ last.op = "admin_dashboard" /\ last.uid # 0
    /\ IsAuthenticated(users, last.uid) /\ users[last.uid].role # "admin"
    /\ last.resp = "error:404"

\* C14: a request without a login session to a login-required route is
\* redirected to the login page and does not reach the view; after a
\* successful login the redirect goes to the "next" query parameter when
\* the request has one, and to the dashboard otherwise.
C14_LoginRequiredAndNext ==
    [][/\ \A route \in LoginRequiredRoutes :
            (session = 0 /\ RouteGetWith(route)) =>
                (~last'.ok /\ last'.resp = "redirect:auth.login")
       /\ \A email \in Emails, password \in LoginPasswords,
             next_page \in NextPages :
            (/\ LoginNextPostWith(email, password, next_page)
             /\ last'.flash = FLASH_LOGIN_OK)
            => last'.resp =
                 (IF next_page \in {None, Some("")}
                  THEN "redirect:dashboard.home"
                  ELSE "redirect:" \o next_page[1])]_vars

\* C14: a request without a login session for an admin page is answered
\* by the 404 handler.
C14_AdminPageNotFound ==
    /\ last.op = "admin_users.manage_users" /\ last.uid = 0
    /\ last.resp = "error:404"

\* C15: within one minute at most 5 requests from the caller's address
\* reach the login view; the 6th login attempt is rejected before the
\* credentials are evaluated and does not call AuthService.authenticate.
C15_LoginRateLimit ==
    /\ window.reached <= 5
    /\ window.calls <= 5
    /\ (last.op = "login" /\ last.at >= 6) =>
           (last.resp \in {"error:429", "error:500"} /\ ~last.valid)

\* C15: a build in which the uninitialised limiter fails every login
\* request, the sixth included.
C15_SixthRefused ==
    /\ last.op = "login" /\ last.at = 6 /\ last.resp = "error:500"
    /\ window.reached = 0

\* C16: AuthService.confirm_email is idempotent.  With a valid token of an
\* existing user it returns true and the user is verified: the first call
\* sets the flag and writes one audit entry, a later call with the same
\* token changes nothing.  With an invalid token or the token of an
\* unknown user it returns false and changes nothing.
C16_ConfirmEmailIdempotent ==
    [][\A token \in Presentable :
          ConfirmEmailWith(token) =>
            LET valid == /\ token.sig = SALT_CONFIRM
                         /\ clock - token.ts >= 0
                         /\ clock - token.ts <= CONFIRMATION_TOKEN_EXPIRES
                         /\ token.payload.id # None
                known == valid /\ token.payload.id[1] \in DOMAIN users
                id == token.payload.id[1]
            IN  IF known
                THEN /\ last'.ok
                     /\ users'[id].is_email_verified
                     /\ \A other \in DOMAIN users \ {id} :
                            users'[other] = users[other]
                     /\ IF users[id].is_email_verified
                        THEN users' = users /\ audit' = audit
                        ELSE /\ users' = [users EXCEPT
                                            ![id].is_email_verified = TRUE]
                             /\ Len(audit') = Len(audit) + 1
                             /\ SubSeq(audit', 1, Len(audit)) = audit
                ELSE /\ ~last'.ok
                     /\ users' = users
                     /\ audit' = audit]_vars

\* C16: the second confirmation with a valid token: the call answered true
\* for a user who was verified before it.
C16_Witness ==
    /\ last.op = "confirm_email" /\ last.ok /\ last.res = Some(TRUE)
    /\ users[last.uid].is_email_verified
    /\ \E i \in 1..Len(audit) : audit[i].event_type = "email_change"

\* C17: Subscription.is_active(g) is true exactly when the status is
\* "active" and either end_date is unset or end_date + g days is not before
\* now.  An active subscription that ended 1 day ago is active for g = 3
\* and not for g = 0; a canceled or expired one is not active for any g and
\* any dates.
C17_IsActiveGrace ==
    [][\A g \in GraceDays :
          IsActiveWith(g) =>
            /\ last'.ok <=> (/\ sub.status = "active"
                             /\ \/ sub.end_date = NoTime
                                \/ ~(sub.end_date + g * 86400 < clock))
            /\ (sub.status = "active" /\ sub.end_date # NoTime
                /\ sub.end_date = clock - 86400)
               => (g = 3 => last'.ok) /\ (g = 0 => ~last'.ok)
            /\ sub.status \in {"canceled", "expired"} => ~last'.ok]_vars

\* C17: is_active(3) answered true for an active subscription that ended
\* one day before.
C17_Witness ==
    /\ last.op = "is_active" /\ last.at = 3 /\ last.ok
    /\ sub.status = "active" /\ sub.end_date # NoTime
    /\ sub.end_date = clock - 86400

\* C18: Subscription.renew(d) on a subscription with no end date sets
\* end_date to now + d days; on one whose end date is still in the future
\* it sets end_date to the old end_date + d days instead of starting from
\* now.  In both cases the status becomes "active" and renewed_at is now.
C18_RenewExtends ==
    [][\A d \in DurationDays :
          RenewWith(d) =>
            /\ sub.end_date = NoTime => sub'.end_date = clock + d * 86400
            /\ (sub.end_date # NoTime /\ sub.end_date > clock)
               => sub'.end_date = sub.end_date + d * 86400
            /\ sub'.status = "active"
            /\ sub'.renewed_at = clock
            /\ sub'.canceled_at = sub.canceled_at]_vars

\* C18: a renewal by 30 days of a subscription whose end date was in the
\* future: the new end date is later than 30 days from now.
C18_Witness ==
    /\ last.op = "renew" /\ last.at = 30
    /\ sub.renewed_at = clock
    /\ sub.end_date > clock + 30 * 86400

\* C19: send_email(msg, retries = n) makes at most n attempts, makes no
\* attempt after the first that succeeds, waits the delay only between two
\* consecutive attempts, and raises EmailSendError exactly when all n
\* attempts have failed.
C19_SendEmailRetries ==
    LET trace == mailer.trace
        attempts == CountOf(trace, "sent") + CountOf(trace, "failed")
        done == mailer.state \in {"returned", "raised"}
    IN  /\ attempts <= mailer.retries
        /\ \A i \in 1..Len(trace) : trace[i] = "sent" => i = Len(trace)
        /\ \A i \in 1..Len(trace) :
               trace[i] = "sleep" =>
                   /\ i > 1 /\ trace[i - 1] = "failed"
                   /\ (i < Len(trace) => trace[i + 1] # "sleep")
                   /\ (i = Len(trace) => ~done)
        /\ mailer.state = "raised" <=>
               (done /\ CountOf(trace, "failed") = mailer.retries)

\* C19: a call with three retries that has failed three times and raised,
\* having slept after the last attempt.
C19_SleptBeforeRaise ==
    /\ mailer.state = "raised" /\ mailer.retries = 3
    /\ CountOf(mailer.trace, "failed") = 3
    /\ mailer.trace[Len(mailer.trace)] = "sleep"

\* C20: for every page route, when the template the route names does not
\* exist, a request that gets to the view is answered with the placeholder
\* page and status 200, never with a 500, whichever safe_render helper the
\* route calls.
C20_MissingTemplatePlaceholder ==
    [][\A route \in PageRoutes :
          (/\ PageGetWith(route, TRUE)
           /\ route.access = "login" => IsAuthenticated(users, session)
           /\ route.blueprint = "admin_dashboard" =>
                  (/\ FlaskSessionGet(build, session, "user_id") # 0
                   /\ users[session].role = "admin")
           /\ route.access = "anonymous" => ~IsAuthenticated(users, session))
          => last'.resp = "render:placeholders/under_construction.html"]_vars

\* C20: the register page of a deployment without auth/signup.html,
\* requested from a browser that is not logged in, is answered 500.
C20_RegisterPage500 ==
    /\ last.op = "auth.register" /\ last.valid /\ last.uid = 0
    /\ last.ok /\ last.resp = "error:500"

\* C21: a valid profile-edit submission by a signed-in user stores the
\* submitted full name and bio in that user's row, leaves every other
\* user's row as it was and redirects back to the edit page.
C21_ProfileEdit ==
    [][\A username \in ProfileUsernames, email \in Emails,
          full_name \in FullNames, bio \in Bios :
          (/\ ProfileEditPostWith(username, email, full_name, bio)
           /\ IsAuthenticated(users, session)
           /\ UpdateProfileForm(username, email).valid)
          => /\ users'[session].full_name = full_name
             /\ users'[session].bio = bio
             /\ \A id \in DOMAIN users \ {session} : users'[id] = users[id]
             /\ last'.resp = "redirect:profile.edit_profile"]_vars

\* A signed-in user's valid submission was answered with a 500 and the row
\* kept its full name and bio.
C21_EditFailed ==
    /\ last.op = "edit_profile"
    /\ last.valid
    /\ last.res = Some("Amy Ng") \o Some("hi")
    /\ last.resp = "error:500"
    /\ last.flash = FLASH_PROFILE_FAILED
    /\ users[session].full_name = ""
    /\ users[session].bio = ""

\* s is the beginning of t: no row of s is changed or missing in t
IsPrefix(s, t) == Len(s) <= Len(t) /\ SubSeq(t, 1, Len(s)) = s

\* The rows of au that belong to none of the users in gone
RowsOfOthers(au, gone) == SelectSeq(au, LAMBDA row : row.user_id \notin gone)

\* C22: no operation modifies an existing audit row; a row disappears
\* only in a run of clear-audit-logs or when the user it belongs to is
\* deleted.
C22_AuditAppendOnly ==
    [][\/ IsPrefix(audit, audit')
       \/ ClearAuditLogsRun
       \/ LET gone == DOMAIN users \ DOMAIN users'
          IN  /\ gone # {}
              /\ IsPrefix(RowsOfOthers(audit, gone), audit')]_vars

\* One of two users was deleted and the row of the other is still there.
C22_Witness ==
    /\ last.op \in {"admin.delete_user", "delete_user"}
    /\ last.ok
    /\ ~last.valid
    /\ DOMAIN users # {}
    /\ \E i \in 1..Len(audit) :
          /\ audit[i].user_id \in DOMAIN users
          /\ audit[i].event_type = "profile_update"

\* C23: a run of clear-audit-logs removes every audit row and reports the
\* number of rows the table held; a run on the empty table reports zero
\* and fails in nothing.
C23_ClearReportsCount ==
    [][ClearAuditLogsRun
       => /\ audit' = <<>>
          /\ last'.ok
          /\ last'.res[Len(last'.res)] = Len(audit)
          /\ (audit = <<>> => last'.res[Len(last'.res)] = 0)]_vars

\* Two runs in a row: the first removed three rows, the second none.
C23_Witness ==
    /\ last.op = "clear-audit-logs"
    /\ last.res = <<MaxAuditRows, 0>>
    /\ audit = <<>>

\* C29: in every reachable state the user id of each audit row is the id
\* of a row of the users table, the state right after
\* AdminService.delete_user included.
C29_AuditRowsHaveUsers ==
    \A i \in 1..Len(audit) : audit[i].user_id \in DOMAIN users

\* AdminService.delete_user removed user 1 and then wrote its own audit
\* row under that id.
C29_DanglingRow ==
    /\ last.op = "admin.delete_user"
    /\ last.ok
    /\ last.uid = 1
    /\ 1 \notin DOMAIN users
    /\ audit = <<AuditRow(1, "delete_user")>>

\* A request a client makes without being logged in
UnauthenticatedRequest ==
    /\ ~(session \in DOMAIN users /\ users[session].is_active)
    /\ \/ LoginPost
       \/ VerifyEmailGet
       \/ ResetRequestPost
       \/ ResetPasswordPost

\* C24: once deactivate_user or a soft delete has turned a user's active
\* flag off, no unauthenticated request (login, verify-email with a valid
\* confirmation token, reset request, reset confirmation) logs that user
\* in or leaves the account in a state in which authenticate succeeds.
C24_StaysOff ==
    [][UnauthenticatedRequest
       => \A id \in DOMAIN users :
             ~users[id].is_active
             => /\ ~(users'[id].is_active /\ ~users'[id].is_deleted)
                /\ ~(last'.op = "login" /\ last'.flash = FLASH_LOGIN_OK
                     /\ last'.uid = id)]_vars

\* The audit table shows a login of user 1 after the user's deactivation.
C24_LoginAfterDeactivation ==
    /\ audit = <<AuditRow(1, "deactivate_user"), AuditRow(1, "login")>>
    /\ last.op = "login"
    /\ last.flash = FLASH_LOGIN_OK
    /\ session = 1

\* The token bears the confirmation signature, is no older than a
\* confirmation token may be, and names user id.
ValidConfirmationOf(token, id, now) ==
    /\ token.sig = SALT_CONFIRM
    /\ now - token.ts >= 0
    /\ now - token.ts <= CONFIRMATION_TOKEN_EXPIRES
    /\ token.payload.id = Some(id)

C25_AdminReachesViews ==
    [][(/\ session \in DOMAIN users
        /\ users[session].role = ADMIN_ROLE
        /\ users[session].is_active)
       => /\ AdminDashboardGet => last'.ok
          /\ \A user_id \in UserIds : UserApiGetWith(user_id) => last'.ok]_vars

\* The request of a logged-in, active admin for the admin dashboard is
\* answered by the 404 handler.
C25_AdminNotFound ==
    /\ last.op = "admin_dashboard"
    /\ last.uid = session
    /\ session \in DOMAIN users
    /\ users[session].role = ADMIN_ROLE
    /\ users[session].is_active
    /\ ~last.ok
    /\ last.resp = "error:404"

\* C27: for every password RegisterForm accepts, LoginForm hands to
\* authenticate, for the same typed password, the value RegisterForm
\* handed to register_user, white space at either end included.
C27_SamePasswordPassed ==
    [][\A email \in TypedEmails, password \in TypedPasswords :
          (/\ last.op = "RegisterForm"
           /\ last.valid
           /\ last.email = email
           /\ last.password = password
           /\ LoginFormSubmitWith(email, password))
          => last'.res = last.res]_vars

\* The login form accepted a password typed with a space at each end and
\* handed on the text without them.
C27_LoginStripped ==
    /\ last.op = "LoginForm"
    /\ last.valid
    /\ last.password = " Passw0rd! "
    /\ last.res = Some("Passw0rd!")

\* C28: register_user called without a username, for an email no user
\* has and whose local part is the name of an existing user, fails with
\* the generic could-not-register error, adds no user row, sends no email
\* and writes no audit row.
C28_LocalPartCollision ==
    [][\A email \in NamedEmails, password \in RegisterPasswords,
          fate \in NamedFates :
          (/\ RegisterNamedWith(email, password, "", fate)
           /\ \A id \in DOMAIN users : users[id].email # email
           /\ \E id \in DOMAIN users : users[id].name = LocalPart(email))
          => /\ last'.exc = "ValueError"
             /\ last'.err = "Could not register user at this time."
             /\ users' = users
             /\ outbox' = outbox
             /\ audit' = audit]_vars

\* amy@y.io was refused with the generic error while amy@x.io holds the
\* name amy.
C28_Witness ==
    /\ last.op = "register_user"
    /\ last.email = "amy@y.io"
    /\ last.res = Some("")
    /\ last.err = "Could not register user at this time."
    /\ \E id \in DOMAIN users :
          users[id].name = "amy" /\ users[id].email = "amy@x.io"
    /\ \A id \in DOMAIN users : users[id].email # "amy@y.io"

\* C30: for every duration_days >= 0 and every stored row, renew moves
\* end_date to no earlier date than it held and leaves it at least
\* duration_days days after the time of the call.
C30_RenewNeverShortens ==
    [][\A d \in DurationDays :
          (d >= 0 /\ RenewWith(d))
          => /\ sub'.end_date >= clock + d * 86400
             /\ sub.end_date # NoTime => sub'.end_date >= sub.end_date]_vars

\* A renewal by one day, made after the first day, of a row whose end date
\* had passed or was unset: the end date is a day from the call.
C30_Witness ==
    /\ last.op = "renew" /\ last.at = 1
    /\ clock >= 86400
    /\ sub.renewed_at = clock
    /\ sub.end_date = clock + 86400
====
